---- MODULE Spec2Model ----
(***************************************************************************)
(* datadog-monitor-manager: the monitor resolution and bulk mutation       *)
(* engine (internal/datadog/client.go) and the add-tags / remove-tags      *)
(* commands (cmd/add_tags.go, cmd/remove_tags.go), as a state machine over *)
(* the provider's monitor collection.                                      *)
(*                                                                         *)
(* A Go string is a TLA+ string; fmt.Sprintf("service:%s", s) is           *)
(* "service:" \o s.  A Monitor struct is a record over MonitorFields; the  *)
(* JSON body of a request is a function whose domain holds the fields that *)
(* json.Marshal writes (a field tagged omitempty is left out when it holds *)
(* its zero value).                                                        *)
(***************************************************************************)
EXTENDS Integers, Sequences, FiniteSets, TLC

VARIABLES
    monitors,      \* the provider's monitor collection, in the order GET /monitor lists it
    keepsOmitted,  \* the provider's reading of a PUT body without "tags": keep them, or clear them
    nextId,        \* the identifier the provider gives to the next created monitor
    pc,            \* "idle": no command has run in this process; "done": the command returned
    op,            \* the code path the last command took
    failed,        \* whether the last command returned an error
    calls,         \* the remote calls the last command issued, in order
    fetched,       \* the monitor list the provider returned to the last command's LIST call
    resolved,      \* the monitor list the last bulk command resolved (filteredMonitors)
    results,       \* the result entries the last bulk command built
    hist,          \* the completed calls of the client's methods, oldest first
    input,         \* the arguments of the pure function under study
    output         \* what the function returned for input

vars ==
    <<monitors, keepsOmitted, nextId, pc, op, failed, calls, fetched, resolved, results, hist,
      input, output>>

(***************************************************************************)
(* Bounds of the model.                                                    *)
(***************************************************************************)
MaxMonitors == 3

Range(s) == {s[i] : i \in 1..Len(s)}

(***************************************************************************)
(* The Monitor struct and its JSON encoding.                               *)
(***************************************************************************)
MonitorFields == {"id", "name", "tags", "overall_state"}

ZeroValue(f) ==
    CASE f = "id" -> 0
      [] f \in {"tags", "overall_state"} -> <<>>
      [] OTHER -> ""

\* json.Marshal of a Monitor: "name" is always written, the omitempty fields
\* only when they differ from their zero value (a nil or empty Tags slice is
\* left out).
MarshalMonitor(m) ==
    LET present == {f \in MonitorFields : f = "name" \/ m[f] # ZeroValue(f)}
    IN  [f \in present |-> m[f]]

\* json Decode into a Monitor: a field the body lacks keeps its zero value.
UnmarshalMonitor(body) ==
    [f \in MonitorFields |-> IF f \in DOMAIN body THEN body[f] ELSE ZeroValue(f)]

(***************************************************************************)
(* The provider (the remote monitor collection behind the HTTP API).       *)
(***************************************************************************)
TagUniverse ==
    {"service:a", "service:ab", "service:b", "env:hml", "namespace:n1", "team:x", "team:y"}

Exists(ms, id) == \E i \in 1..Len(ms) : ms[i].id = id

Stored(ms, id) == ms[CHOOSE i \in 1..Len(ms) : ms[i].id = id]

\* GET /monitor?monitor_tags=...&query=...: the tag filters are ANDed, a
\* leading "!" negates one; the query is in the provider's own search syntax,
\* so which monitors it matches is the provider's choice (matched).
ProviderTagMatch(m, t) ==
    IF \E x \in TagUniverse : t = "!" \o x
    THEN ~(\E x \in TagUniverse : t = "!" \o x /\ x \in Range(m.tags))
    ELSE t \in Range(m.tags)

ProviderList(ms, tagList, query, matched) ==
    SelectSeq(ms, LAMBDA m :
        /\ \A i \in 1..Len(tagList) : ProviderTagMatch(m, tagList[i])
        /\ (query # "" => m.id \in matched))

\* PUT /monitor/{id}: the stored definition takes the fields of the body; the
\* identifier (from the path) and the overall state (computed by the
\* provider) stay.  A body without "tags" keeps or clears the stored tags.
ProviderUpdate(ms, id, body) ==
    [i \in 1..Len(ms) |->
        IF ms[i].id # id THEN ms[i]
        ELSE [ms[i] EXCEPT
                !.name = body["name"],
                !.tags = IF "tags" \in DOMAIN body THEN body["tags"]
                         ELSE IF keepsOmitted THEN ms[i].tags ELSE <<>>]]

ProviderDelete(ms, id) == SelectSeq(ms, LAMBDA m : m.id # id)

\* POST /monitor: the provider stores the definition of the body under a new
\* identifier; a new monitor has no data yet.
ProviderCreate(ms, id, body) ==
    Append(ms, [id |-> id, name |-> body["name"],
                tags |-> IF "tags" \in DOMAIN body THEN body["tags"] ELSE <<>>,
                overall_state |-> <<"N", "o", " ", "D", "a", "t", "a">>])

\* What one remote operation on a monitor can meet: "ok"; "get_error" and
\* "update_error", a non-200 answer to the GET or to the PUT; "delete_error";
\* "answer_without_id", a 200 answer to the PUT whose body carries no "id".
Outcomes == {"ok", "get_error", "update_error", "answer_without_id"}

DeleteOutcomes == {"ok", "delete_error"}

(***************************************************************************)
(* The client's remote calls.  Each takes the collection ms it acts on and *)
(* what the provider answers, and returns the collection afterwards, the   *)
(* calls issued and what the Go method returns (ok = FALSE: an error).     *)
(***************************************************************************)
Call(name, id, ok, answer) == [call |-> name, id |-> id, ok |-> ok, answer |-> answer]

\* The query parameter monitor_tags: a filter "!=x" is sent as "!x".
MonitorTagsParam(tags) ==
    [i \in 1..Len(tags) |->
        IF \E x \in TagUniverse : tags[i] = "!=" \o x
        THEN "!" \o (CHOOSE x \in TagUniverse : tags[i] = "!=" \o x)
        ELSE tags[i]]

ListMonitors(ms, tags, searchText, listOk, matched) ==
    IF ~listOk
    THEN [ok |-> FALSE, err |-> "failed to list monitors", monitors |-> <<>>,
          calls |-> <<Call("LIST", 0, FALSE, 0)>>]
    ELSE [ok |-> TRUE, err |-> "",
          monitors |-> ProviderList(ms, MonitorTagsParam(tags), searchText, matched),
          calls |-> <<Call("LIST", 0, TRUE, 0)>>]

GetMonitor(ms, monitorID, o) ==
    IF o = "get_error" \/ ~Exists(ms, monitorID)
    THEN [ok |-> FALSE, err |-> "failed to get monitor", monitor |-> UnmarshalMonitor(<<>>),
          calls |-> <<Call("GET", monitorID, FALSE, 0)>>]
    ELSE [ok |-> TRUE, err |-> "", monitor |-> UnmarshalMonitor(Stored(ms, monitorID)),
          calls |-> <<Call("GET", monitorID, TRUE, 0)>>]

UpdateMonitor(ms, monitorID, monitor, o) ==
    IF o = "update_error" \/ ~Exists(ms, monitorID)
    THEN [ok |-> FALSE, err |-> "failed to update monitor", ms |-> ms,
          monitor |-> UnmarshalMonitor(<<>>),
          calls |-> <<Call("PUT", monitorID, FALSE, 0)>>]
    ELSE LET after == ProviderUpdate(ms, monitorID, MarshalMonitor(monitor))
             full == Stored(after, monitorID)
             answer == IF o = "answer_without_id"
                       THEN [f \in DOMAIN full \ {"id"} |-> full[f]]
                       ELSE full
             result == UnmarshalMonitor(answer)
         IN  [ok |-> TRUE, err |-> "", ms |-> after, monitor |-> result,
              calls |-> <<Call("PUT", monitorID, TRUE, result.id)>>]

\* newId is the identifier the provider gives the monitor it creates.
CreateMonitor(ms, monitor, o, newId) ==
    IF o = "create_error"
    THEN [ok |-> FALSE, err |-> "failed to create monitor", ms |-> ms,
          monitor |-> UnmarshalMonitor(<<>>),
          calls |-> <<Call("POST", 0, FALSE, 0)>>]
    ELSE [ok |-> TRUE, err |-> "",
          ms |-> ProviderCreate(ms, newId, MarshalMonitor(monitor)),
          monitor |-> UnmarshalMonitor(
                        Stored(ProviderCreate(ms, newId, MarshalMonitor(monitor)), newId)),
          calls |-> <<Call("POST", 0, TRUE, newId)>>]

\* Mutant: the lookup takes a monitor whose name starts with the name.
FindMonitorByName_ByPrefix(ms, name, listOk) ==
    LET listed == ListMonitors(ms, <<>>, "", listOk, {})
        hits == {i \in 1..Len(listed.monitors) :
                    \E rest \in {"", " high"} : listed.monitors[i].name = name \o rest}
    IN  IF ~listed.ok
        THEN [ok |-> FALSE, err |-> listed.err, found |-> FALSE,
              monitor |-> UnmarshalMonitor(<<>>), calls |-> listed.calls]
        ELSE IF hits # {}
        THEN [ok |-> TRUE, err |-> "", found |-> TRUE,
              monitor |-> listed.monitors[CHOOSE i \in hits : \A j \in hits : i <= j],
              calls |-> listed.calls]
        ELSE [ok |-> TRUE, err |-> "", found |-> FALSE,
              monitor |-> UnmarshalMonitor(<<>>), calls |-> listed.calls]

\* found = FALSE with ok = TRUE is the (nil, nil) the method returns when no
\* monitor has the name.
FindMonitorByName(ms, name, listOk) ==
    LET listed == ListMonitors(ms, <<>>, "", listOk, {})
        hits == {i \in 1..Len(listed.monitors) : listed.monitors[i].name = name}
    IN  IF ~listed.ok
        THEN [ok |-> FALSE, err |-> listed.err, found |-> FALSE,
              monitor |-> UnmarshalMonitor(<<>>), calls |-> listed.calls]
        ELSE IF hits # {}
        THEN [ok |-> TRUE, err |-> "", found |-> TRUE,
              monitor |-> listed.monitors[CHOOSE i \in hits : \A j \in hits : i <= j],
              calls |-> listed.calls]
        ELSE [ok |-> TRUE, err |-> "", found |-> FALSE,
              monitor |-> UnmarshalMonitor(<<>>), calls |-> listed.calls]

\* UpsertMonitor once FindMonitorByName returned existing.
UpsertFound(existing, updated) ==
    [ok |-> updated.ok, err |-> updated.err, ms |-> updated.ms, monitor |-> updated.monitor,
     wasCreated |-> FALSE, calls |-> existing.calls \o updated.calls]

UpsertNew(existing, created) ==
    [ok |-> created.ok, err |-> created.err, ms |-> created.ms, monitor |-> created.monitor,
     wasCreated |-> TRUE, calls |-> existing.calls \o created.calls]

\* Mutant: the monitor is created whether or not the lookup found one.
UpsertLooked_CreateAlways(ms, monitor, existing, o, newId) ==
    IF ~existing.ok
    THEN [ok |-> FALSE, err |-> existing.err, ms |-> ms, monitor |-> UnmarshalMonitor(<<>>),
          wasCreated |-> FALSE, calls |-> existing.calls]
    ELSE UpsertNew(existing, CreateMonitor(ms, monitor, o, newId))

UpsertLooked(ms, monitor, existing, o, newId) ==
    IF ~existing.ok
    THEN [ok |-> FALSE, err |-> existing.err, ms |-> ms, monitor |-> UnmarshalMonitor(<<>>),
          wasCreated |-> FALSE, calls |-> existing.calls]
    ELSE IF existing.found
    THEN UpsertFound(existing, UpdateMonitor(ms, existing.monitor.id, monitor, o))
    ELSE UpsertNew(existing, CreateMonitor(ms, monitor, o, newId))

UpsertMonitor(ms, monitor, listOk, o, newId) ==
    UpsertLooked(ms, monitor, FindMonitorByName(ms, monitor.name, listOk), o, newId)

DeleteMonitor(ms, monitorID, o) ==
    IF o = "delete_error" \/ ~Exists(ms, monitorID)
    THEN [ok |-> FALSE, err |-> "failed to delete monitor", ms |-> ms,
          calls |-> <<Call("DELETE", monitorID, FALSE, 0)>>]
    ELSE [ok |-> TRUE, err |-> "", ms |-> ProviderDelete(ms, monitorID),
          calls |-> <<Call("DELETE", monitorID, TRUE, 0)>>]

(***************************************************************************)
(* Tag mutation of one monitor.                                            *)
(***************************************************************************)
\* The loop of AddTagsToMonitor: existingTags is built from the monitor's
\* tags before the loop and is not extended while tags are appended.
RECURSIVE AppendMissing(_, _, _)
AppendMissing(tags, tagsToAdd, existingTags) ==
    IF tagsToAdd = <<>> THEN tags
    ELSE AppendMissing(
            IF Head(tagsToAdd) \in existingTags THEN tags ELSE Append(tags, Head(tagsToAdd)),
            Tail(tagsToAdd), existingTags)

\* Mutant: every tag of tagsToAdd is appended, present or not.
MergeTags_AppendAll(tags, tagsToAdd) == tags \o tagsToAdd

MergeTags(tags, tagsToAdd) == AppendMissing(tags, tagsToAdd, Range(tags))

\* Mutant: a tag is dropped when an entry of tagsToRemove is a prefix of it.
FilterTags_ByPrefix(tags, tagsToRemove) ==
    SelectSeq(tags, LAMBDA tag :
        ~\E i \in 1..Len(tagsToRemove), rest \in {"", "b"} : tag = tagsToRemove[i] \o rest)

FilterTags(tags, tagsToRemove) ==
    SelectSeq(tags, LAMBDA tag : tag \notin Range(tagsToRemove))

\* A tag mutation once GetMonitor returned got and UpdateMonitor, called with
\* the definition monitor, returned upd.
Mutated(got, monitor, upd) ==
    [ok |-> upd.ok, err |-> upd.err, ms |-> upd.ms, monitor |-> upd.monitor,
     sent |-> monitor, calls |-> got.calls \o upd.calls]

\* A tag mutation whose GetMonitor returned an error: no update is issued.
NotGot(ms, got) ==
    [ok |-> FALSE, err |-> got.err, ms |-> ms, monitor |-> got.monitor,
     sent |-> got.monitor, calls |-> got.calls]

\* The definition AddTagsToMonitor passes to UpdateMonitor: the one GetMonitor
\* returned with the missing tags appended.
WithTagsAdded(monitor, tagsToAdd) ==
    [monitor EXCEPT !.tags = MergeTags(monitor.tags, tagsToAdd)]

\* Mutant: the update is sent also when GetMonitor returned an error.
AddTagsGot_UpdateAnyway(ms, monitorID, tagsToAdd, got, o) ==
    Mutated(got, WithTagsAdded(got.monitor, tagsToAdd),
            UpdateMonitor(ms, monitorID, WithTagsAdded(got.monitor, tagsToAdd), "ok"))

\* AddTagsToMonitor once GetMonitor returned got; ms is the collection at the
\* time of the update.
AddTagsGot(ms, monitorID, tagsToAdd, got, o) ==
    IF ~got.ok THEN NotGot(ms, got)
    ELSE Mutated(got, WithTagsAdded(got.monitor, tagsToAdd),
                 UpdateMonitor(ms, monitorID, WithTagsAdded(got.monitor, tagsToAdd), o))

AddTagsToMonitor(ms, monitorID, tagsToAdd, o) ==
    AddTagsGot(ms, monitorID, tagsToAdd, GetMonitor(ms, monitorID, o), o)

\* The definition RemoveTagsFromMonitor passes to UpdateMonitor.
WithTagsRemoved(monitor, tagsToRemove) ==
    [monitor EXCEPT !.tags = FilterTags(monitor.tags, tagsToRemove)]

\* RemoveTagsFromMonitor once GetMonitor returned got.
RemoveTagsGot(ms, monitorID, tagsToRemove, got, o) ==
    IF ~got.ok THEN NotGot(ms, got)
    ELSE Mutated(got, WithTagsRemoved(got.monitor, tagsToRemove),
                 UpdateMonitor(ms, monitorID, WithTagsRemoved(got.monitor, tagsToRemove), o))

RemoveTagsFromMonitor(ms, monitorID, tagsToRemove, o) ==
    RemoveTagsGot(ms, monitorID, tagsToRemove, GetMonitor(ms, monitorID, o), o)

(***************************************************************************)
(* Bulk operations of the client.                                          *)
(***************************************************************************)
Reverse(s) == [i \in 1..Len(s) |-> s[Len(s) + 1 - i]]

\* Mutant: the matching monitors are collected in reverse order.
FilteredMonitors_Reversed(list, service, env, namespace) ==
    Reverse(SelectSeq(list, LAMBDA monitor :
        /\ (service # "" => \E i \in 1..Len(monitor.tags) : monitor.tags[i] = "service:" \o service)
        /\ (env # "" => \E i \in 1..Len(monitor.tags) : monitor.tags[i] = "env:" \o env)
        /\ (namespace # "" =>
                \E i \in 1..Len(monitor.tags) : monitor.tags[i] = "namespace:" \o namespace)))

\* The filter loop of DeleteMonitorsByFilter, AddTagsToMonitors and
\* RemoveTagsFromMonitors (the same text in each): a monitor is kept when,
\* for each non-empty constraint, one of its tags equals key:value.
FilteredMonitors(list, service, env, namespace) ==
    SelectSeq(list, LAMBDA monitor :
        /\ (service # "" => \E i \in 1..Len(monitor.tags) : monitor.tags[i] = "service:" \o service)
        /\ (env # "" => \E i \in 1..Len(monitor.tags) : monitor.tags[i] = "env:" \o env)
        /\ (namespace # "" =>
                \E i \in 1..Len(monitor.tags) : monitor.tags[i] = "namespace:" \o namespace))

\* Mutant: the failure entry carries the bare error text.
FailedEntry_BareError(monitor, err) ==
    [id |-> monitor.id, name |-> monitor.name, status |-> err]

FailedEntry(monitor, err) ==
    [id |-> monitor.id, name |-> monitor.name, status |-> "failed: " \o err]

DeletedEntry(monitor) ==
    [id |-> monitor.id, name |-> monitor.name, status |-> "deleted"]

UpdatedEntry(updated) ==
    [id |-> updated.id, name |-> updated.name, status |-> "updated", tags |-> updated.tags]

\* The loops over filteredMonitors; outs[i] is what the operation on the i-th
\* monitor meets.  Each returns the collection afterwards, the calls issued
\* and the result entries.
\* Mutant: the loop ends at the first monitor whose deletion fails.
RECURSIVE DeleteEach_StopAtError(_, _, _)
DeleteEach_StopAtError(ms, list, outs) ==
    IF list = <<>> THEN [ms |-> ms, calls |-> <<>>, results |-> <<>>]
    ELSE LET monitor == Head(list)
             r == DeleteMonitor(ms, monitor.id, Head(outs))
             entry == IF ~r.ok
                      THEN [id |-> monitor.id, name |-> monitor.name,
                            status |-> "failed: " \o r.err]
                      ELSE [id |-> monitor.id, name |-> monitor.name, status |-> "deleted"]
             rest == IF ~r.ok THEN [ms |-> r.ms, calls |-> <<>>, results |-> <<>>]
                     ELSE DeleteEach_StopAtError(r.ms, Tail(list), Tail(outs))
         IN  [ms |-> rest.ms, calls |-> r.calls \o rest.calls,
              results |-> <<entry>> \o rest.results]

\* One turn of a loop: r is what the operation on the monitor returned, entry
\* the result appended for it, rest what the turns after it return.
Turn(r, entry, rest) ==
    [ms |-> rest.ms, calls |-> r.calls \o rest.calls, results |-> <<entry>> \o rest.results]

RECURSIVE DeleteEach(_, _, _)
RECURSIVE DeleteTurn(_, _, _)
\* The body of the delete loop once DeleteMonitor returned r.
DeleteTurn(list, outs, r) ==
    Turn(r, IF ~r.ok THEN FailedEntry(Head(list), r.err) ELSE DeletedEntry(Head(list)),
         DeleteEach(r.ms, Tail(list), Tail(outs)))

DeleteEach(ms, list, outs) ==
    IF list = <<>> THEN [ms |-> ms, calls |-> <<>>, results |-> <<>>]
    ELSE DeleteTurn(list, outs, DeleteMonitor(ms, Head(list).id, Head(outs)))

\* Mutant: a monitor whose update fails gets no result entry.
RECURSIVE AddTagsEach_DropFailed(_, _, _, _)
AddTagsEach_DropFailed(ms, list, tagsToAdd, outs) ==
    IF list = <<>> THEN [ms |-> ms, calls |-> <<>>, results |-> <<>>]
    ELSE LET monitor == Head(list)
             r == AddTagsToMonitor(ms, monitor.id, tagsToAdd, Head(outs))
             rest == AddTagsEach_DropFailed(r.ms, Tail(list), tagsToAdd, Tail(outs))
         IN  [ms |-> rest.ms, calls |-> r.calls \o rest.calls,
              results |-> IF ~r.ok THEN rest.results
                          ELSE <<[id |-> r.monitor.id, name |-> r.monitor.name,
                                  status |-> "updated", tags |-> r.monitor.tags]>>
                               \o rest.results]

RECURSIVE AddTagsEach(_, _, _, _)
RECURSIVE AddTagsTurn(_, _, _, _)
\* The body of the add-tags loop once AddTagsToMonitor returned r.
AddTagsTurn(list, tagsToAdd, outs, r) ==
    Turn(r, IF ~r.ok THEN FailedEntry(Head(list), r.err) ELSE UpdatedEntry(r.monitor),
         AddTagsEach(r.ms, Tail(list), tagsToAdd, Tail(outs)))

AddTagsEach(ms, list, tagsToAdd, outs) ==
    IF list = <<>> THEN [ms |-> ms, calls |-> <<>>, results |-> <<>>]
    ELSE AddTagsTurn(list, tagsToAdd, outs,
                     AddTagsToMonitor(ms, Head(list).id, tagsToAdd, Head(outs)))

RECURSIVE RemoveTagsEach(_, _, _, _)
RECURSIVE RemoveTagsTurn(_, _, _, _)
\* The body of the remove-tags loop once RemoveTagsFromMonitor returned r.
RemoveTagsTurn(list, tagsToRemove, outs, r) ==
    Turn(r, IF ~r.ok THEN FailedEntry(Head(list), r.err) ELSE UpdatedEntry(r.monitor),
         RemoveTagsEach(r.ms, Tail(list), tagsToRemove, Tail(outs)))

RemoveTagsEach(ms, list, tagsToRemove, outs) ==
    IF list = <<>> THEN [ms |-> ms, calls |-> <<>>, results |-> <<>>]
    ELSE RemoveTagsTurn(list, tagsToRemove, outs,
                        RemoveTagsFromMonitor(ms, Head(list).id, tagsToRemove, Head(outs)))

\* What a command leaves behind: the path taken, the collection, the calls, the
\* list the provider returned, the resolved list, the result entries and
\* whether it returned an error.
Outcome(path, ms, cs, all, list, entries, isErr) ==
    [op |-> path, ms |-> ms, calls |-> cs, fetched |-> all, resolved |-> list,
     results |-> entries, failed |-> isErr]

\* The list call failed: the command returns the error, nothing is resolved.
ListFailed(path, ms, listed) ==
    Outcome(path, ms, listed.calls, listed.monitors, <<>>, <<>>, TRUE)

\* The loop over the resolved list has run (done): the command returns.
Looped(path, listed, list, done) ==
    Outcome(path, done.ms, listed.calls \o done.calls, listed.monitors, list, done.results,
            FALSE)

\* DeleteMonitorsByFilter once ListMonitors returned listed and the filter
\* loop kept filteredMonitors.
DeleteFiltered(ms, listed, filteredMonitors, outs) ==
    Looped("DeleteMonitorsByFilter", listed, filteredMonitors,
           DeleteEach(ms, filteredMonitors, outs))

DeleteListed(ms, service, env, namespace, listed, outs) ==
    IF ~listed.ok THEN ListFailed("DeleteMonitorsByFilter", ms, listed)
    ELSE DeleteFiltered(ms, listed,
                        FilteredMonitors(listed.monitors, service, env, namespace), outs)

DeleteMonitorsByFilter(ms, service, env, namespace, tags, listOk, outs) ==
    DeleteListed(ms, service, env, namespace, ListMonitors(ms, tags, "", listOk, {}), outs)

\* AddTagsToMonitors once ListMonitors returned listed and the filter loop
\* kept filteredMonitors.
AddTagsFiltered(ms, listed, filteredMonitors, tagsToAdd, outs) ==
    Looped("AddTagsToMonitors", listed, filteredMonitors,
           AddTagsEach(ms, filteredMonitors, tagsToAdd, outs))

AddTagsListed(ms, service, env, namespace, listed, tagsToAdd, outs) ==
    IF ~listed.ok THEN ListFailed("AddTagsToMonitors", ms, listed)
    ELSE AddTagsFiltered(ms, listed,
                         FilteredMonitors(listed.monitors, service, env, namespace),
                         tagsToAdd, outs)

AddTagsToMonitors(ms, service, env, namespace, tags, tagsToAdd, listOk, outs) ==
    AddTagsListed(ms, service, env, namespace, ListMonitors(ms, tags, "", listOk, {}),
                  tagsToAdd, outs)

\* RemoveTagsFromMonitors once ListMonitors returned listed and the filter
\* loop kept filteredMonitors.
RemoveTagsFiltered(ms, listed, filteredMonitors, tagsToRemove, outs) ==
    Looped("RemoveTagsFromMonitors", listed, filteredMonitors,
           RemoveTagsEach(ms, filteredMonitors, tagsToRemove, outs))

RemoveTagsListed(ms, service, env, namespace, listed, tagsToRemove, outs) ==
    IF ~listed.ok THEN ListFailed("RemoveTagsFromMonitors", ms, listed)
    ELSE RemoveTagsFiltered(ms, listed,
                            FilteredMonitors(listed.monitors, service, env, namespace),
                            tagsToRemove, outs)

RemoveTagsFromMonitors(ms, service, env, namespace, tags, tagsToRemove, listOk, outs) ==
    RemoveTagsListed(ms, service, env, namespace, ListMonitors(ms, tags, "", listOk, {}),
                     tagsToRemove, outs)

(***************************************************************************)
(* The commands' local filters (cmd).  A monitor state and the --status    *)
(* flag are sequences of one-character strings, so that canonicalization   *)
(* is computed character by character.                                     *)
(***************************************************************************)
UpperCase == <<"A","B","C","D","E","F","G","H","I","J","K","L","M",
               "N","O","P","Q","R","S","T","U","V","W","X","Y","Z">>

LowerCase == <<"a","b","c","d","e","f","g","h","i","j","k","l","m",
               "n","o","p","q","r","s","t","u","v","w","x","y","z">>

\* strings.ToLower
ToLower(s) ==
    [i \in 1..Len(s) |->
        IF \E k \in 1..Len(UpperCase) : UpperCase[k] = s[i]
        THEN LowerCase[CHOOSE k \in 1..Len(UpperCase) : UpperCase[k] = s[i]]
        ELSE s[i]]

\* strings.TrimSpace
RECURSIVE TrimLeft(_)
TrimLeft(s) == IF s # <<>> /\ Head(s) = " " THEN TrimLeft(Tail(s)) ELSE s

RECURSIVE TrimRight(_)
TrimRight(s) ==
    IF s # <<>> /\ s[Len(s)] = " " THEN TrimRight(SubSeq(s, 1, Len(s) - 1)) ELSE s

TrimSpace(s) == TrimRight(TrimLeft(s))

\* strings.ReplaceAll(s, old, " ") for a one-character old
ReplaceWithSpace(s, old) == [i \in 1..Len(s) |-> IF s[i] = old THEN " " ELSE s[i]]

\* strings.Contains(s, "  ")
ContainsDoubleSpace(s) == \E i \in 1..(Len(s) - 1) : s[i] = " " /\ s[i + 1] = " "

\* strings.ReplaceAll(s, "  ", " "): the non-overlapping pairs, left to right
RECURSIVE ReplaceDoubleSpace(_)
ReplaceDoubleSpace(s) ==
    IF Len(s) < 2 THEN s
    ELSE IF s[1] = " " /\ s[2] = " "
         THEN <<" ">> \o ReplaceDoubleSpace(SubSeq(s, 3, Len(s)))
         ELSE <<s[1]>> \o ReplaceDoubleSpace(Tail(s))

RECURSIVE CollapseSpaces(_)
CollapseSpaces(s) ==
    IF ContainsDoubleSpace(s) THEN CollapseSpaces(ReplaceDoubleSpace(s)) ELSE s

\* Mutant: "-" is not taken for a space.
canonicalMonitorState_DashKept(s) ==
    ToLower(CollapseSpaces(ReplaceWithSpace(TrimSpace(s), "_")))

canonicalMonitorState(s) ==
    ToLower(CollapseSpaces(ReplaceWithSpace(ReplaceWithSpace(TrimSpace(s), "-"), "_")))

filterMonitorsByState(list, desiredState) ==
    LET want == canonicalMonitorState(desiredState)
    IN  IF want = <<>> THEN list
        ELSE SelectSeq(list, LAMBDA m : canonicalMonitorState(m.overall_state) = want)

\* Mutant: a tag that starts with the wanted text counts.
hasExactTag_ByPrefix(tags, want) ==
    \E i \in 1..Len(tags) : \E rest \in {"", "b"} : tags[i] = want \o rest

hasExactTag(tags, want) == \E i \in 1..Len(tags) : tags[i] = want

filterMonitorsByServiceEnvNamespace(list, service, env, namespace) ==
    IF service = "" /\ env = "" /\ namespace = "" THEN list
    ELSE SelectSeq(list, LAMBDA monitor :
            /\ ~(service # "" /\ ~hasExactTag(monitor.tags, "service:" \o service))
            /\ ~(env # "" /\ ~hasExactTag(monitor.tags, "env:" \o env))
            /\ ~(namespace # "" /\ ~hasExactTag(monitor.tags, "namespace:" \o namespace)))

\* The --filter-tags flag is a sequence of tokens: a tag, "," or " ".
\* strings.Split(flag, ",") and strings.TrimSpace of each piece; a piece is
\* the string its tokens spell.
RECURSIVE SplitComma(_)
SplitComma(flag) ==
    IF \A i \in 1..Len(flag) : flag[i] # "," THEN <<flag>>
    ELSE LET k == CHOOSE i \in 1..Len(flag) :
                    flag[i] = "," /\ \A j \in 1..(i - 1) : flag[j] # ","
         IN  <<SubSeq(flag, 1, k - 1)>> \o SplitComma(SubSeq(flag, k + 1, Len(flag)))

RECURSIVE Spell(_)
Spell(tokens) == IF tokens = <<>> THEN "" ELSE Head(tokens) \o Spell(Tail(tokens))

FilterTagList(flag) ==
    IF flag = <<>> THEN <<>>
    ELSE LET pieces == SplitComma(flag)
         IN  [i \in 1..Len(pieces) |-> Spell(TrimSpace(pieces[i]))]

(***************************************************************************)
(* The add-tags and remove-tags commands.  f holds the flags; listOk,      *)
(* matched and outs are what the provider answers.                         *)
(***************************************************************************)
\* NewClient: the client exists when the environment holds both keys.
NewClient(credentials) == credentials

\* Mutant: --query may be combined with the other filter flags.
FlagsRejected_QueryWithFilters(f) ==
    \/ Len(f.tags) = 0
    \/ /\ f.monitorID = 0 /\ f.service = "" /\ f.env = "" /\ f.namespace = ""
       /\ f.filterTags = <<>> /\ f.query = ""
    \/ /\ f.monitorID > 0
       /\ (\/ f.service # "" \/ f.env # "" \/ f.namespace # "" \/ f.filterTags # <<>>
           \/ f.query # "" \/ f.status # <<>>)

\* The checks runAddTags and runRemoveTags start with (the same in both):
\* one of them returns an error.
FlagsRejected(f) ==
    \/ Len(f.tags) = 0
    \/ /\ f.monitorID = 0 /\ f.service = "" /\ f.env = "" /\ f.namespace = ""
       /\ f.filterTags = <<>> /\ f.query = ""
    \/ /\ f.monitorID > 0
       /\ (\/ f.service # "" \/ f.env # "" \/ f.namespace # "" \/ f.filterTags # <<>>
           \/ f.query # "" \/ f.status # <<>>)
    \/ /\ f.query # ""
       /\ (f.service # "" \/ f.env # "" \/ f.namespace # "" \/ f.filterTags # <<>>)

RECURSIVE runAddTagsEach(_, _, _, _)
RECURSIVE runAddTagsTurn(_, _, _, _)
\* The body of the command's loop once AddTagsToMonitor returned r.
runAddTagsTurn(list, tagsToAdd, outs, r) ==
    Turn(r, IF ~r.ok THEN FailedEntry(Head(list), r.err) ELSE UpdatedEntry(r.monitor),
         runAddTagsEach(r.ms, Tail(list), tagsToAdd, Tail(outs)))

\* The loop of the command over the monitors it resolved itself.
runAddTagsEach(ms, list, tagsToAdd, outs) ==
    IF list = <<>> THEN [ms |-> ms, calls |-> <<>>, results |-> <<>>]
    ELSE runAddTagsTurn(list, tagsToAdd, outs,
            AddTagsToMonitor(ms, Head(list).id, tagsToAdd, Head(outs)))

\* --monitor-id: one monitor, once AddTagsToMonitor returned r.
runAddTagsSingle(r) == Outcome("runAddTags.single", r.ms, r.calls, <<>>, <<>>, <<>>, ~r.ok)

\* The command's own resolution, once ListMonitors returned listed and the
\* local filters kept list: an empty list ends the command without a loop.
runAddTagsLoop(path, ms, listed, list, tagsToAdd, outs) ==
    IF ~listed.ok THEN ListFailed(path, ms, listed)
    ELSE IF Len(list) = 0
    THEN Outcome(path, ms, listed.calls, listed.monitors, <<>>, <<>>, FALSE)
    ELSE Looped(path, listed, list, runAddTagsEach(ms, list, tagsToAdd, outs))

\* --query: the provider's search, then the state filter when --status is set.
runAddTagsQuery(ms, f, listed, outs) ==
    runAddTagsLoop("runAddTags.query", ms, listed,
        IF f.status # <<>> THEN filterMonitorsByState(listed.monitors, f.status)
        ELSE listed.monitors,
        f.tags, outs)

\* Mutant: the status path without the service/env/namespace filter.
runAddTagsStatus_StateFilterOnly(ms, f, listed, outs) ==
    runAddTagsLoop("runAddTags.status", ms, listed,
        filterMonitorsByState(listed.monitors, f.status), f.tags, outs)

\* --status with the tag filters: the list by --filter-tags, then the
\* service/env/namespace filter, then the state filter.
runAddTagsStatus(ms, f, listed, outs) ==
    runAddTagsLoop("runAddTags.status", ms, listed,
        filterMonitorsByState(
            filterMonitorsByServiceEnvNamespace(listed.monitors, f.service, f.env, f.namespace),
            f.status),
        f.tags, outs)

runAddTags(ms, f, listOk, matched, outs) ==
    IF FlagsRejected(f)
    THEN Outcome("runAddTags.invalid", ms, <<>>, <<>>, <<>>, <<>>, TRUE)
    ELSE IF ~NewClient(f.credentials)
    THEN Outcome("runAddTags.noclient", ms, <<>>, <<>>, <<>>, <<>>, TRUE)
    ELSE IF f.monitorID > 0
    THEN runAddTagsSingle(AddTagsToMonitor(ms, f.monitorID, f.tags, Head(outs)))
    ELSE IF f.query # ""
    THEN runAddTagsQuery(ms, f, ListMonitors(ms, <<>>, f.query, listOk, matched), outs)
    ELSE IF f.status = <<>>
    THEN AddTagsToMonitors(ms, f.service, f.env, f.namespace, FilterTagList(f.filterTags), f.tags,
                listOk, outs)
    ELSE runAddTagsStatus(ms, f, ListMonitors(ms, FilterTagList(f.filterTags), "", listOk, {}),
                outs)

RECURSIVE runRemoveTagsEach(_, _, _, _)
RECURSIVE runRemoveTagsTurn(_, _, _, _)
\* The body of the command's loop once RemoveTagsFromMonitor returned r.
runRemoveTagsTurn(list, tagsToRemove, outs, r) ==
    Turn(r, IF ~r.ok THEN FailedEntry(Head(list), r.err) ELSE UpdatedEntry(r.monitor),
         runRemoveTagsEach(r.ms, Tail(list), tagsToRemove, Tail(outs)))

\* The loop of the command over the monitors it resolved itself.
runRemoveTagsEach(ms, list, tagsToRemove, outs) ==
    IF list = <<>> THEN [ms |-> ms, calls |-> <<>>, results |-> <<>>]
    ELSE runRemoveTagsTurn(list, tagsToRemove, outs,
            RemoveTagsFromMonitor(ms, Head(list).id, tagsToRemove, Head(outs)))

\* --monitor-id: one monitor, once RemoveTagsFromMonitor returned r.
runRemoveTagsSingle(r) == Outcome("runRemoveTags.single", r.ms, r.calls, <<>>, <<>>, <<>>, ~r.ok)

\* The command's own resolution, once ListMonitors returned listed and the
\* local filters kept list: an empty list ends the command without a loop.
runRemoveTagsLoop(path, ms, listed, list, tagsToRemove, outs) ==
    IF ~listed.ok THEN ListFailed(path, ms, listed)
    ELSE IF Len(list) = 0
    THEN Outcome(path, ms, listed.calls, listed.monitors, <<>>, <<>>, FALSE)
    ELSE Looped(path, listed, list, runRemoveTagsEach(ms, list, tagsToRemove, outs))

\* --query: the provider's search, then the state filter when --status is set.
runRemoveTagsQuery(ms, f, listed, outs) ==
    runRemoveTagsLoop("runRemoveTags.query", ms, listed,
        IF f.status # <<>> THEN filterMonitorsByState(listed.monitors, f.status)
        ELSE listed.monitors,
        f.tags, outs)

\* --status with the tag filters: the list by --filter-tags, then the
\* service/env/namespace filter, then the state filter.
runRemoveTagsStatus(ms, f, listed, outs) ==
    runRemoveTagsLoop("runRemoveTags.status", ms, listed,
        filterMonitorsByState(
            filterMonitorsByServiceEnvNamespace(listed.monitors, f.service, f.env, f.namespace),
            f.status),
        f.tags, outs)

runRemoveTags(ms, f, listOk, matched, outs) ==
    IF FlagsRejected(f)
    THEN Outcome("runRemoveTags.invalid", ms, <<>>, <<>>, <<>>, <<>>, TRUE)
    ELSE IF ~NewClient(f.credentials)
    THEN Outcome("runRemoveTags.noclient", ms, <<>>, <<>>, <<>>, <<>>, TRUE)
    ELSE IF f.monitorID > 0
    THEN runRemoveTagsSingle(RemoveTagsFromMonitor(ms, f.monitorID, f.tags, Head(outs)))
    ELSE IF f.query # ""
    THEN runRemoveTagsQuery(ms, f, ListMonitors(ms, <<>>, f.query, listOk, matched), outs)
    ELSE IF f.status = <<>>
    THEN RemoveTagsFromMonitors(ms, f.service, f.env, f.namespace, FilterTagList(f.filterTags), f.tags,
                listOk, outs)
    ELSE runRemoveTagsStatus(ms, f, ListMonitors(ms, FilterTagList(f.filterTags), "", listOk, {}),
                outs)

(***************************************************************************)
(* The state machine of the bulk commands: one process runs one command    *)
(* against the provider's collection.                                      *)
(***************************************************************************)
StateOK == <<"O", "K">>

StateNoData == <<"N", "o", " ", "D", "a", "t", "a">>

StatusNoData == <<"n", "o", "_", "d", "a", "t", "a">>

\* The monitors a collection starts from: each takes one of these shapes.
InitShapes ==
    { [tags |-> <<"service:a", "env:hml">>, overall_state |-> StateOK],
      [tags |-> <<"service:ab", "env:hml", "team:x">>, overall_state |-> StateNoData],
      [tags |-> <<"team:x">>, overall_state |-> StateNoData] }

MonitorName(i) == "monitor-" \o ToString(i)

Collections(n) ==
    {[i \in 1..n |-> [id |-> i, name |-> MonitorName(i), tags |-> sh[i].tags,
                      overall_state |-> sh[i].overall_state]] :
        sh \in [1..n -> InitShapes]}

IdsOf(ms) == {ms[i].id : i \in 1..Len(ms)}

InitBulk ==
    /\ monitors \in UNION {Collections(n) : n \in 0..MaxMonitors}
    /\ keepsOmitted \in BOOLEAN
    /\ nextId = MaxMonitors + 1
    /\ pc = "idle"
    /\ op = ""
    /\ failed = FALSE
    /\ calls = <<>>
    /\ fetched = <<>>
    /\ resolved = <<>>
    /\ results = <<>>
    /\ hist = <<>>
    /\ input = <<>>
    /\ output = <<>>

\* The command returns: its effects on the provider and what it reported.
Return(out) ==
    /\ monitors' = out.ms
    /\ op' = out.op
    /\ failed' = out.failed
    /\ calls' = out.calls
    /\ fetched' = out.fetched
    /\ resolved' = out.resolved
    /\ results' = out.results
    /\ pc' = "done"
    /\ UNCHANGED <<keepsOmitted, nextId, hist, input, output>>

AllOk(ms) == [i \in 1..(Len(ms) + 1) |-> "ok"]

\* The number of per-monitor operations a command run issues.
Operations(out) ==
    IF out.op \in {"runAddTags.single", "runRemoveTags.single"} THEN 1 ELSE Len(out.resolved)

BulkFlags(tagLists) ==
    [credentials : {TRUE}, monitorID : {0, 1}, service : {"", "a"}, env : {"", "hml"},
     namespace : {""}, filterTags : {<<>>, <<"team:x">>}, query : {"", "service:(a OR b)"},
     status : {<<>>, StatusNoData}, tags : tagLists]

DeleteAll ==
    /\ pc = "idle"
    /\ \E service \in {"", "a"}, env \in {"", "hml"}, tags \in {<<>>, <<"team:x">>},
          listOk \in BOOLEAN :
          LET n == Operations(DeleteMonitorsByFilter(monitors, service, env, "", tags,
                                                     listOk, AllOk(monitors)))
          IN  \E outs \in [1..n -> DeleteOutcomes] :
                Return(DeleteMonitorsByFilter(monitors, service, env, "", tags, listOk, outs))

AddTags ==
    /\ pc = "idle"
    /\ \E f \in BulkFlags({<<"team:y">>}), listOk \in BOOLEAN :
       \E matched \in (IF f.query # "" THEN SUBSET IdsOf(monitors) ELSE {{}}) :
          LET n == Operations(runAddTags(monitors, f, listOk, matched, AllOk(monitors)))
          IN  \E outs \in [1..n -> Outcomes] :
                Return(runAddTags(monitors, f, listOk, matched, outs))

RemoveTags ==
    /\ pc = "idle"
    /\ \E f \in BulkFlags({<<"team:x">>}), listOk \in BOOLEAN :
       \E matched \in (IF f.query # "" THEN SUBSET IdsOf(monitors) ELSE {{}}) :
          LET n == Operations(runRemoveTags(monitors, f, listOk, matched, AllOk(monitors)))
          IN  \E outs \in [1..n -> Outcomes] :
                Return(runRemoveTags(monitors, f, listOk, matched, outs))

NextBulk == DeleteAll \/ AddTags \/ RemoveTags

SpecBulk == InitBulk /\ [][NextBulk]_vars

(***************************************************************************)
(* Properties of the bulk commands (SpecBulk).                             *)
(***************************************************************************)
BulkPaths ==
    {"DeleteMonitorsByFilter", "AddTagsToMonitors", "RemoveTagsFromMonitors",
     "runAddTags.query", "runAddTags.status", "runRemoveTags.query", "runRemoveTags.status"}

\* A bulk command has returned its result entries.
Finished == pc = "done" /\ op \in BulkPaths /\ ~failed

ErrorTexts == {"failed to get monitor", "failed to update monitor", "failed to delete monitor"}

IsFailedStatus(status) == \E e \in ErrorTexts : status = "failed: " \o e

\* The remote call a per-monitor operation starts with.
FirstCall == IF op = "DeleteMonitorsByFilter" THEN "DELETE" ELSE "GET"

SuccessStatus == IF op = "DeleteMonitorsByFilter" THEN "deleted" ELSE "updated"

CountCalls(name, id) ==
    Cardinality({k \in 1..Len(calls) : calls[k].call = name /\ calls[k].id = id})

\* The remote operation on monitor id returned an error.
OperationFailed(id) ==
    \E k \in 1..Len(calls) : calls[k].call # "LIST" /\ calls[k].id = id /\ ~calls[k].ok

Position(list, id) == CHOOSE k \in 1..Len(list) : list[k].id = id

\* C1: a bulk delete, add-tags or remove-tags (the client methods and the
\* query/status loops of the commands) returns exactly as many result
\* entries as it resolved monitors, whichever operations failed.
C1_OneEntryPerResolvedMonitor == Finished => Len(results) = Len(resolved)

C1_Witness ==
    /\ Finished
    /\ op = "AddTagsToMonitors"
    /\ Len(resolved) >= 2
    /\ Len(results) >= 2
    /\ \E i, j \in 1..Len(results) :
          IsFailedStatus(results[i].status) /\ results[j].status = "updated"

\* C2: the per-monitor operation is invoked exactly once for every resolved
\* monitor, also for those after a failed one, and for no other monitor: one
\* GET (or DELETE) per resolved monitor, one PUT exactly when its GET
\* succeeded, and nothing else but the one LIST.
C2_EachOperationOnce ==
    Finished =>
        /\ CountCalls("LIST", 0) = 1
        /\ \A k \in 1..Len(calls) :
              calls[k].call # "LIST" => \E i \in 1..Len(resolved) : resolved[i].id = calls[k].id
        /\ \A i \in 1..Len(resolved) :
              /\ CountCalls(FirstCall, resolved[i].id) = 1
              /\ CountCalls("PUT", resolved[i].id) =
                    IF \E k \in 1..Len(calls) :
                          calls[k].call = "GET" /\ calls[k].id = resolved[i].id /\ calls[k].ok
                    THEN 1 ELSE 0

C2_Witness ==
    /\ Finished
    /\ op \in {"RemoveTagsFromMonitors", "runAddTags.query"}
    /\ \E i, j \in 1..Len(resolved) :
          /\ i < j
          /\ OperationFailed(resolved[i].id)
          /\ CountCalls("GET", resolved[j].id) = 1
          /\ CountCalls("PUT", resolved[j].id) = 1

\* C3: the entry of a monitor has a status starting with "failed:" exactly
\* when the remote operation on it returned an error, and otherwise the
\* status "deleted" (delete) or "updated" (tag mutation); the number of failed
\* entries is the number of failed operations.
C3_StatusReflectsOutcome ==
    Finished =>
        /\ Len(results) = Len(resolved)
        /\ \A i \in 1..Len(resolved) :
              IF OperationFailed(resolved[i].id)
              THEN IsFailedStatus(results[i].status)
              ELSE results[i].status = SuccessStatus
        /\ Cardinality({i \in 1..Len(results) : IsFailedStatus(results[i].status)})
              = Cardinality({k \in 1..Len(calls) : ~calls[k].ok})

C3_Witness ==
    /\ Finished
    /\ op = "DeleteMonitorsByFilter"
    /\ Len(results) = 3
    /\ IsFailedStatus(results[1].status)
    /\ results[2].status = "deleted"
    /\ IsFailedStatus(results[3].status)

\* C4: every result entry of a bulk delete, add-tags or remove-tags carries
\* the identifier of a monitor of the resolved set, whatever the provider
\* answers to the update call.
C4_EntryIdsAreResolvedIds ==
    Finished => \A i \in 1..Len(results) : \E j \in 1..Len(resolved) : resolved[j].id = results[i].id

\* C5: the resolved list keeps the order of the list the provider returned,
\* the per-monitor remote operations are issued in the order of the resolved
\* list, and the i-th result entry is the one built for the i-th resolved
\* monitor: it reports that monitor's outcome, under that monitor's
\* identifier and name (failure, delete) or under those of the provider's
\* answer to that monitor's update.
AnswerTo(id) ==
    calls[CHOOSE k \in 1..Len(calls) : calls[k].call = "PUT" /\ calls[k].id = id /\ calls[k].ok].answer

OperationCalls == SelectSeq(calls, LAMBDA c : c.call = FirstCall)

C5_ResolvedOrderKept ==
    Finished =>
        /\ \A i \in 1..Len(resolved) : \E k \in 1..Len(fetched) : fetched[k] = resolved[i]
        /\ \A i, j \in 1..Len(resolved) :
              i < j => Position(fetched, resolved[i].id) < Position(fetched, resolved[j].id)
        /\ Len(OperationCalls) = Len(resolved)
        /\ \A i \in 1..Len(resolved) : OperationCalls[i].id = resolved[i].id
        /\ \A k, l \in 2..Len(calls) :
              k < l => Position(resolved, calls[k].id) <= Position(resolved, calls[l].id)
        /\ Len(results) = Len(resolved)
        /\ \A i \in 1..Len(resolved) :
              /\ IsFailedStatus(results[i].status) <=> OperationFailed(resolved[i].id)
              /\ results[i].id =
                    IF results[i].status = "updated" THEN AnswerTo(resolved[i].id)
                    ELSE resolved[i].id
              /\ results[i].status # "updated" => results[i].name = resolved[i].name

C5_Witness ==
    /\ Finished
    /\ op \in {"runAddTags.status", "AddTagsToMonitors"}
    /\ Len(fetched) = 3
    /\ Len(resolved) = 2
    /\ resolved[1] = fetched[1]
    /\ resolved[2] = fetched[3]
    /\ results[1].status = "updated"
    /\ results[2].status = "updated"
    /\ results[1].id = resolved[1].id
    /\ results[2].id = resolved[2].id

(***************************************************************************)
(* The state machine of the tag mutations: a caller of the client applies  *)
(* AddTagsToMonitor and RemoveTagsFromMonitor one after the other; hist    *)
(* keeps, per call, the tags stored before it, the tags of the definition  *)
(* it sent and the tags stored after it.                                   *)
(***************************************************************************)
MaxOps == 2

\* The tag lists the monitor starts with.
StoredTagLists ==
    { <<>>, <<"team:x">>, <<"team:x", "service:ab", "env:hml">>, <<"env:hml", "env:hml">> }

AddLists ==
    { <<>>, <<"team:y">>, <<"team:y", "team:y">>, <<"team:x", "team:y">>, <<"team:x">> }

RemoveLists ==
    { <<>>, <<"team:y">>, <<"team:x">>, <<"service:a", "team:x">>, <<"service:a">> }

TagsOf(ms, id) == IF Exists(ms, id) THEN Stored(ms, id).tags ELSE <<>>

InitTags ==
    /\ monitors \in {<<[id |-> 1, name |-> MonitorName(1), tags |-> t, overall_state |-> StateOK]>> :
                        t \in StoredTagLists}
    /\ keepsOmitted \in BOOLEAN
    /\ nextId = 2
    /\ pc = "idle"
    /\ op = ""
    /\ failed = FALSE
    /\ calls = <<>>
    /\ fetched = <<>>
    /\ resolved = <<>>
    /\ results = <<>>
    /\ hist = <<>>
    /\ input = <<>>
    /\ output = <<>>

\* The client method returned r.
Applied(name, monitorID, arg, r) ==
    /\ monitors' = r.ms
    /\ op' = name
    /\ failed' = ~r.ok
    /\ calls' = r.calls
    /\ hist' = Append(hist, [op |-> name, id |-> monitorID, arg |-> arg, ok |-> r.ok,
                             got |-> r.calls[1].ok,
                             before |-> TagsOf(monitors, monitorID),
                             sent |-> r.sent.tags,
                             after |-> TagsOf(r.ms, monitorID)])
    /\ UNCHANGED <<keepsOmitted, nextId, pc, fetched, resolved, results, input, output>>

AddTag ==
    /\ pc = "idle"
    /\ Len(hist) < MaxOps
    /\ \E monitorID \in {1, 2}, tagsToAdd \in AddLists, o \in Outcomes :
          Applied("AddTagsToMonitor", monitorID, tagsToAdd,
                  AddTagsToMonitor(monitors, monitorID, tagsToAdd, o))

RemoveTag ==
    /\ pc = "idle"
    /\ Len(hist) < MaxOps
    /\ \E monitorID \in {1, 2}, tagsToRemove \in RemoveLists, o \in Outcomes :
          Applied("RemoveTagsFromMonitor", monitorID, tagsToRemove,
                  RemoveTagsFromMonitor(monitors, monitorID, tagsToRemove, o))

NextTags == AddTag \/ RemoveTag

SpecTags == InitTags /\ [][NextTags]_vars

(***************************************************************************)
(* Properties of the tag mutations (SpecTags).                             *)
(***************************************************************************)
NoDuplicates(s) == \A i, j \in 1..Len(s) : s[i] = s[j] => i = j

\* The elements of s that are not in seen, each at its first occurrence.
RECURSIVE FirstOccurrences(_, _)
FirstOccurrences(s, seen) ==
    IF s = <<>> THEN <<>>
    ELSE IF Head(s) \in seen THEN FirstOccurrences(Tail(s), seen)
    ELSE <<Head(s)>> \o FirstOccurrences(Tail(s), seen \cup {Head(s)})

\* C6: when the stored tag list has no duplicates, the list a successful
\* AddTagsToMonitor leaves stored has no duplicates, holds exactly the
\* existing tags and those of toAdd, and is the existing list followed by
\* the new tags in order of first occurrence, also when toAdd names a tag
\* twice.
C6_AddIsDeduplicatedUnion ==
    \A k \in 1..Len(hist) :
        (hist[k].op = "AddTagsToMonitor" /\ hist[k].ok /\ NoDuplicates(hist[k].before)) =>
            /\ NoDuplicates(hist[k].after)
            /\ Range(hist[k].after) = Range(hist[k].before) \cup Range(hist[k].arg)
            /\ hist[k].after =
                  hist[k].before \o FirstOccurrences(hist[k].arg, Range(hist[k].before))

\* Two calls in a row on the same monitor that both succeeded.
InARow(k, first, second) ==
    /\ k + 1 <= Len(hist)
    /\ hist[k].op = first /\ hist[k].ok
    /\ hist[k + 1].op = second /\ hist[k + 1].ok
    /\ hist[k + 1].id = hist[k].id
    /\ hist[k + 1].arg = hist[k].arg
    /\ Len(hist[k].arg) = 1

\* C7: adding [t] twice in a row leaves the tag list that adding it once
\* left, for every stored tag list and every tag t.
C7_AddIsIdempotent ==
    \A k \in 1..Len(hist) :
        InARow(k, "AddTagsToMonitor", "AddTagsToMonitor") => hist[k + 1].after = hist[k].after

C7_Witness ==
    /\ Len(hist) = 2
    /\ InARow(1, "AddTagsToMonitor", "AddTagsToMonitor")
    /\ hist[1].arg = <<"team:y">>
    /\ hist[1].before = <<"team:x">>
    /\ hist[1].after = <<"team:x", "team:y">>
    /\ hist[2].after = <<"team:x", "team:y">>

\* C8: for a tag t absent from the monitor's tags, AddTagsToMonitor with [t]
\* followed by RemoveTagsFromMonitor with [t] leaves the monitor's original
\* tag list stored.
C8_AddThenRemoveRestores ==
    \A k \in 1..Len(hist) :
        (/\ InARow(k, "AddTagsToMonitor", "RemoveTagsFromMonitor")
         /\ hist[k].arg[1] \notin Range(hist[k].before))
            => hist[k + 1].after = hist[k].before

\* C9: the tag list RemoveTagsFromMonitor computes and sends is the existing
\* list without the tags equal to an entry of toRemove, the others in their
\* original order; entries of toRemove that are no tag of the monitor (a
\* prefix of one included) change nothing; a non-empty computed list is what
\* is stored afterwards.
C9_RemoveIsExactDifference ==
    \A k \in 1..Len(hist) :
        (hist[k].op = "RemoveTagsFromMonitor" /\ hist[k].got) =>
            LET before == hist[k].before
                sent == hist[k].sent
                keep == {i \in 1..Len(before) : \A j \in 1..Len(hist[k].arg) : hist[k].arg[j] # before[i]}
            IN  /\ Len(sent) = Cardinality(keep)
                /\ \A i \in keep : sent[Cardinality({j \in keep : j <= i})] = before[i]
                /\ (Range(hist[k].arg) \cap Range(before) = {} => sent = before)
                /\ (hist[k].ok /\ sent # <<>> => hist[k].after = sent)

C9_Witness ==
    \E k \in 1..Len(hist) :
        /\ hist[k].op = "RemoveTagsFromMonitor"
        /\ hist[k].ok
        /\ hist[k].arg = <<"service:a", "team:x">>
        /\ hist[k].before = <<"team:x", "service:ab", "env:hml">>
        /\ hist[k].sent = <<"service:ab", "env:hml">>
        /\ hist[k].after = <<"service:ab", "env:hml">>

(***************************************************************************)
(* The state machine of the upsert resolver: a caller applies monitor      *)
(* definitions one after the other, by UpsertMonitor or, with upsert       *)
(* disabled, by CreateMonitor; hist keeps, per call, the collection before *)
(* it, the calls it issued and what it returned.                           *)
(***************************************************************************)
MonitorNames == {"cpu", "CPU", "cpu high"}

NamedCollections(n) ==
    {[i \in 1..n |-> [id |-> i, name |-> names[i], tags |-> <<"team:x">>,
                      overall_state |-> StateOK]] :
        names \in [1..n -> MonitorNames]}

\* The definitions a caller applies.
MonitorDefs ==
    {[id |-> 0, name |-> n, tags |-> <<"team:y">>, overall_state |-> <<>>] :
        n \in MonitorNames}

UpsertOutcomes == {"ok", "update_error", "create_error"}

InitUpsert ==
    /\ monitors \in UNION {NamedCollections(n) : n \in 0..MaxMonitors}
    /\ keepsOmitted \in BOOLEAN
    /\ nextId = MaxMonitors + 1
    /\ pc = "idle"
    /\ op = ""
    /\ failed = FALSE
    /\ calls = <<>>
    /\ fetched = <<>>
    /\ resolved = <<>>
    /\ results = <<>>
    /\ hist = <<>>
    /\ input = <<>>
    /\ output = <<>>

\* The client method returned r for the definition monitor.
Decided(name, monitor, r) ==
    /\ monitors' = r.ms
    /\ nextId' = IF Len(r.ms) > Len(monitors) THEN nextId + 1 ELSE nextId
    /\ op' = name
    /\ failed' = ~r.ok
    /\ calls' = r.calls
    /\ hist' = Append(hist, [op |-> name, def |-> monitor, before |-> monitors,
                             calls |-> r.calls, ok |-> r.ok, wasCreated |-> r.wasCreated,
                             returned |-> r.monitor, after |-> r.ms])
    /\ UNCHANGED <<keepsOmitted, pc, fetched, resolved, results, input, output>>

Upsert ==
    /\ pc = "idle"
    /\ Len(hist) < MaxOps
    /\ \E monitor \in MonitorDefs, listOk \in BOOLEAN, o \in UpsertOutcomes :
          Decided("UpsertMonitor", monitor, UpsertMonitor(monitors, monitor, listOk, o, nextId))

\* Mutant: the error of the create call is dropped.
CreateOnly_ErrorDropped(created) ==
    [ok |-> TRUE, err |-> "", ms |-> created.ms, monitor |-> created.monitor,
     wasCreated |-> TRUE, calls |-> created.calls]

\* Upsert disabled: the create call alone, reported as created.
CreateOnly(created) ==
    [ok |-> created.ok, err |-> created.err, ms |-> created.ms, monitor |-> created.monitor,
     wasCreated |-> TRUE, calls |-> created.calls]

Create ==
    /\ pc = "idle"
    /\ Len(hist) < MaxOps
    /\ \E monitor \in MonitorDefs, o \in UpsertOutcomes :
          Decided("CreateMonitor", monitor,
                  CreateOnly(CreateMonitor(monitors, monitor, o, nextId)))

NextUpsert == Upsert \/ Create

SpecUpsert == InitUpsert /\ [][NextUpsert]_vars

(***************************************************************************)
(* Properties of the upsert resolver (SpecUpsert).                         *)
(***************************************************************************)
CallsOf(h, name) == SelectSeq(h.calls, LAMBDA c : c.call = name)

\* The monitors of the collection that carry exactly the name, in list order.
Named(ms, name) == SelectSeq(ms, LAMBDA m : m.name = name)

\* C10: UpsertMonitor lists all monitors once; when the list holds a monitor
\* whose name equals the definition's name exactly, it issues one update
\* against the identifier of the first such monitor and no create, and
\* returns wasCreated = FALSE; when the list holds none, that is no error: it
\* issues one create and no update, and returns wasCreated = TRUE.
C10_UpsertUpdatesOrCreates ==
    \A k \in 1..Len(hist) :
        (hist[k].op = "UpsertMonitor" /\ hist[k].calls[1].ok) =>
            LET h == hist[k]
                same == Named(h.before, h.def.name)
            IN  /\ h.calls[1].call = "LIST"
                /\ Len(CallsOf(h, "LIST")) = 1
                /\ IF same # <<>>
                   THEN /\ Len(CallsOf(h, "PUT")) = 1
                        /\ CallsOf(h, "PUT")[1].id = same[1].id
                        /\ Len(CallsOf(h, "POST")) = 0
                        /\ h.wasCreated = FALSE
                        /\ Len(h.after) = Len(h.before)
                   ELSE /\ Len(CallsOf(h, "POST")) = 1
                        /\ Len(CallsOf(h, "PUT")) = 0
                        /\ h.wasCreated = TRUE
                        /\ (h.calls[2].ok => h.ok)
                        /\ (h.ok => /\ Len(h.after) = Len(h.before) + 1
                                    /\ Len(Named(h.after, h.def.name)) = 1)

C10_Witness ==
    /\ Len(hist) = 2
    /\ hist[1].op = "UpsertMonitor" /\ hist[1].ok /\ hist[1].wasCreated
    /\ hist[1].def.name = "cpu"
    /\ Len(Named(hist[1].before, "cpu high")) > 0
    /\ Len(Named(hist[1].before, "CPU")) > 0
    /\ hist[2].op = "UpsertMonitor" /\ hist[2].ok /\ ~hist[2].wasCreated
    /\ hist[2].def.name = "cpu"
    /\ CallsOf(hist[2], "PUT")[1].id = hist[1].returned.id

(***************************************************************************)
(* Templates.  The text of a name, query or message field and the values   *)
(* of service, env and namespace are sequences of tokens: a token is one    *)
(* character, a run of characters that holds no part of a placeholder, or   *)
(* one of the placeholder texts below.  A template configuration is a      *)
(* function from the keys it has to their values; its tags are strings.    *)
(***************************************************************************)
ServicePlaceholder == "{service}"

EnvPlaceholder == "{env}"

NamespacePlaceholder == "{namespace}"

ServicePreserve == "__SERVICE_PRESERVE__"

\* The text "by " before a placeholder.
By == <<"b", "y", " ">>

\* strings.ReplaceAll(s, old, new), old not empty: the non-overlapping
\* occurrences of old, left to right.
RECURSIVE ReplaceAll(_, _, _)
ReplaceAll(s, old, new) ==
    IF Len(s) < Len(old) THEN s
    ELSE IF SubSeq(s, 1, Len(old)) = old
         THEN new \o ReplaceAll(SubSeq(s, Len(old) + 1, Len(s)), old, new)
         ELSE <<Head(s)>> \o ReplaceAll(Tail(s), old, new)

\* strings.ToUpper
ToUpper(s) ==
    [i \in 1..Len(s) |->
        IF \E k \in 1..Len(LowerCase) : LowerCase[k] = s[i]
        THEN UpperCase[CHOOSE k \in 1..Len(LowerCase) : LowerCase[k] = s[i]]
        ELSE s[i]]

\* The two loops of CustomizeTemplate over serviceTags and additionalTags: a
\* tag is appended unless the list built so far holds it.
RECURSIVE AppendAbsent(_, _)
AppendAbsent(tags, more) ==
    IF more = <<>> THEN tags
    ELSE AppendAbsent(IF \E i \in 1..Len(tags) : tags[i] = Head(more)
                      THEN tags ELSE Append(tags, Head(more)),
                      Tail(more))

CustomizedName(name, service, env, namespace) ==
    ReplaceAll(
        ReplaceAll(
            ReplaceAll(name, <<ServicePlaceholder>>, service),
            <<EnvPlaceholder>>, ToUpper(env)),
        <<NamespacePlaceholder>>, namespace)

\* Mutant: the query is substituted like the message, "by {service}" included.
CustomizedQuery_NoPreserve(query, service, env, namespace) ==
    ReplaceAll(
        ReplaceAll(
            ReplaceAll(query, <<ServicePlaceholder>>, service),
            <<EnvPlaceholder>>, env),
        <<NamespacePlaceholder>>, namespace)

CustomizedQuery(query, service, env, namespace) ==
    ReplaceAll(
        ReplaceAll(
            ReplaceAll(
                ReplaceAll(
                    ReplaceAll(query, By \o <<ServicePlaceholder>>, By \o <<ServicePreserve>>),
                    <<ServicePlaceholder>>, service),
                <<ServicePreserve>>, <<ServicePlaceholder>>),
            <<EnvPlaceholder>>, env),
        <<NamespacePlaceholder>>, namespace)

\* Mutant: env is upper-cased in the message as it is in the name.
CustomizedMessage_UpperEnv(message, service, env, namespace) ==
    ReplaceAll(
        ReplaceAll(
            ReplaceAll(message, <<ServicePlaceholder>>, service),
            <<EnvPlaceholder>>, ToUpper(env)),
        <<NamespacePlaceholder>>, namespace)

CustomizedMessage(message, service, env, namespace) ==
    ReplaceAll(
        ReplaceAll(
            ReplaceAll(message, <<ServicePlaceholder>>, service),
            <<EnvPlaceholder>>, env),
        <<NamespacePlaceholder>>, namespace)

\* Mutant: the placeholder of a template tag is filled in as well.
CustomizedTags_Filled(template, service, env, namespace, additionalTags) ==
    AppendAbsent(
        AppendAbsent(IF "tags" \in DOMAIN template
                     THEN [i \in 1..Len(template["tags"]) |->
                              IF template["tags"][i] = "service:{service}"
                              THEN "service:" \o Spell(service) ELSE template["tags"][i]]
                     ELSE <<>>,
                     <<"service:" \o Spell(service), "env:" \o Spell(env),
                       "namespace:" \o Spell(namespace)>>),
        additionalTags)

\* Mutant: the derived and the extra tags are appended without looking at
\* the list.
CustomizedTags_NoDedup(template, service, env, namespace, additionalTags) ==
    (IF "tags" \in DOMAIN template THEN template["tags"] ELSE <<>>)
        \o <<"service:" \o Spell(service), "env:" \o Spell(env),
             "namespace:" \o Spell(namespace)>>
        \o additionalTags

CustomizedTags(template, service, env, namespace, additionalTags) ==
    AppendAbsent(
        AppendAbsent(IF "tags" \in DOMAIN template THEN template["tags"] ELSE <<>>,
                     <<"service:" \o Spell(service), "env:" \o Spell(env),
                       "namespace:" \o Spell(namespace)>>),
        additionalTags)

CustomizeTemplate(template, service, env, namespace, additionalTags) ==
    [k \in DOMAIN template \cup {"tags"} |->
        CASE k = "name" -> CustomizedName(template[k], service, env, namespace)
          [] k = "query" -> CustomizedQuery(template[k], service, env, namespace)
          [] k = "message" -> CustomizedMessage(template[k], service, env, namespace)
          [] k = "tags" -> CustomizedTags(template, service, env, namespace, additionalTags)
          [] OTHER -> template[k]]

(***************************************************************************)
(* ApplyTemplate.  A template file is unreadable, no JSON object, an object *)
(* with a non-empty "templates" array, or any other object (one template).  *)
(* a holds the arguments service, env, namespace, upsert, additionalTags;   *)
(* answers[i] is what the provider answers to the calls for the i-th        *)
(* template.                                                               *)
(***************************************************************************)
LoadTemplateFromJSON(file) ==
    CASE file.kind = "unreadable" ->
            [ok |-> FALSE, err |-> "template file not found", templates |-> <<>>]
      [] file.kind = "invalid" ->
            [ok |-> FALSE, err |-> "invalid JSON in template file", templates |-> <<>>]
      [] file.kind = "object" /\ Len(file.templates) > 0 ->
            [ok |-> TRUE, err |-> "", templates |-> file.templates]
      [] OTHER ->
            [ok |-> TRUE, err |-> "",
             templates |-> <<[name |-> <<"Single Template">>, hasConfig |-> TRUE,
                              config |-> file.config]>>]

\* templateData.Config, or the template data itself when it has none.
TemplateConfig(templateData) ==
    IF templateData.hasConfig THEN templateData.config ELSE [name |-> templateData.name]

TemplateName(templateData) ==
    IF templateData.name = <<>> THEN "Unknown Template" ELSE Spell(templateData.name)

\* json.Marshal of the customized configuration, json.Unmarshal into Monitor.
ToMonitor(customized) ==
    [id |-> 0,
     name |-> IF "name" \in DOMAIN customized THEN Spell(customized["name"]) ELSE "",
     tags |-> customized["tags"],
     overall_state |-> <<>>]

ListAnswer(answer) == answer # "list_error"

\* Mutant: the entries of the templates applied before an error are
\* returned.
ApplyJoin_EarlierEntriesKept(r, entry, rest) ==
    [ok |-> rest.ok, err |-> rest.err, ms |-> rest.ms, calls |-> r.calls \o rest.calls,
     results |-> <<entry>> \o rest.results]

\* The create or update of one template returned r; rest is what the
\* templates after it return.
ApplyJoin(r, entry, rest) ==
    [ok |-> rest.ok, err |-> rest.err, ms |-> rest.ms, calls |-> r.calls \o rest.calls,
     results |-> IF rest.ok THEN <<entry>> \o rest.results ELSE <<>>]

RECURSIVE ApplyEach(_, _, _, _, _)
RECURSIVE ApplyTurn(_, _, _, _, _)
\* The body of the loop once UpsertMonitor or CreateMonitor returned r: an
\* error ends ApplyTemplate with no results.
ApplyTurn(templates, a, answers, newId, r) ==
    IF ~r.ok
    THEN [ok |-> FALSE,
          err |-> "failed to apply " \o TemplateName(Head(templates)) \o ": " \o r.err,
          ms |-> r.ms, calls |-> r.calls, results |-> <<>>]
    ELSE ApplyJoin(r,
                   [template_name |-> TemplateName(Head(templates)), id |-> r.monitor.id,
                    was_created |-> r.wasCreated],
                   ApplyEach(r.ms, Tail(templates), a, Tail(answers),
                             IF r.wasCreated THEN newId + 1 ELSE newId))

\* The call the loop makes for the definition monitor.
ApplyOne(ms, monitor, upsert, answer, newId) ==
    IF upsert THEN UpsertMonitor(ms, monitor, ListAnswer(answer), answer, newId)
    ELSE CreateOnly(CreateMonitor(ms, monitor, answer, newId))

ApplyEach(ms, templates, a, answers, newId) ==
    IF templates = <<>>
    THEN [ok |-> TRUE, err |-> "", ms |-> ms, calls |-> <<>>, results |-> <<>>]
    ELSE ApplyTurn(templates, a, answers, newId,
            ApplyOne(ms,
                     ToMonitor(CustomizeTemplate(TemplateConfig(Head(templates)), a.service,
                                                 a.env, a.namespace, a.additionalTags)),
                     a.upsert, Head(answers), newId))

ApplyLoaded(ms, loaded, a, answers, newId) ==
    IF ~loaded.ok
    THEN [ok |-> FALSE, err |-> loaded.err, ms |-> ms, calls |-> <<>>, results |-> <<>>]
    ELSE ApplyEach(ms, loaded.templates, a, answers, newId)

ApplyTemplate(ms, templateFile, a, answers, newId) ==
    ApplyLoaded(ms, LoadTemplateFromJSON(templateFile), a, answers, newId)

(***************************************************************************)
(* The template command.  f holds the flags: env, hasFile and file          *)
(* (--file), dirExists and dir (the *.json files of --template-dir, in the  *)
(* order Glob returns them), upsert (not --no-upsert) and the arguments of  *)
(* ApplyTemplate.  A report is what one ApplyTemplate call was given and    *)
(* returned.                                                               *)
(***************************************************************************)
validEnvs ==
    { <<"d", "e", "v">>, <<"h", "m", "l">>, <<"p", "r", "d">>, <<"c", "o", "r", "p">> }

TemplatesIn(file) == Len(LoadTemplateFromJSON(file).templates)

Report(file, upsert, before, r) ==
    [file |-> file, upsert |-> upsert, before |-> before, ok |-> r.ok, err |-> r.err,
     results |-> r.results, calls |-> r.calls, after |-> r.ms]

TemplateOutcome(path, ms, cs, reports, isErr) ==
    [op |-> path, ms |-> ms, calls |-> cs, reports |-> reports, failed |-> isErr]

\* --file: the error of ApplyTemplate is the error of the command.
runTemplateFile(ms, f, r) ==
    TemplateOutcome("runTemplate.file", r.ms, r.calls, <<Report(f.file, f.upsert, ms, r)>>,
                    ~r.ok)

RECURSIVE runTemplateEach(_, _, _, _, _)
RECURSIVE runTemplateTurn(_, _, _, _, _, _)
\* Mutant: the loop over the directory ends at the first file that fails.
runTemplateNext_StopAtError(report, rest) ==
    IF ~report.ok
    THEN [ms |-> report.after, calls |-> report.calls, reports |-> <<report>>]
    ELSE [ms |-> rest.ms, calls |-> report.calls \o rest.calls,
          reports |-> <<report>> \o rest.reports]

\* The body of the loop over the directory once ApplyTemplate returned r:
\* after an error the loop continues with the next file.
runTemplateNext(report, rest) ==
    [ms |-> rest.ms, calls |-> report.calls \o rest.calls,
     reports |-> <<report>> \o rest.reports]

runTemplateTurn(ms, matches, f, answers, newId, r) ==
    runTemplateNext(
        Report(Head(matches), f.upsert, ms, r),
        runTemplateEach(r.ms, Tail(matches), f,
                        SubSeq(answers, TemplatesIn(Head(matches)) + 1, Len(answers)),
                        newId + Len(r.ms) - Len(ms)))

runTemplateEach(ms, matches, f, answers, newId) ==
    IF matches = <<>> THEN [ms |-> ms, calls |-> <<>>, reports |-> <<>>]
    ELSE runTemplateTurn(ms, matches, f, answers, newId,
                         ApplyTemplate(ms, Head(matches), f, answers, newId))

\* --template-dir: the command returns no error once the loop has run.
runTemplateDir(done) ==
    TemplateOutcome("runTemplate.dir", done.ms, done.calls, done.reports, FALSE)

runTemplate(ms, f, answers, newId) ==
    IF ~NewClient(f.credentials)
    THEN TemplateOutcome("runTemplate.noclient", ms, <<>>, <<>>, TRUE)
    ELSE IF f.env \notin validEnvs
    THEN TemplateOutcome("runTemplate.invalid", ms, <<>>, <<>>, TRUE)
    ELSE IF f.hasFile
    THEN runTemplateFile(ms, f, ApplyTemplate(ms, f.file, f, answers, newId))
    ELSE IF ~f.dirExists
    THEN TemplateOutcome("runTemplate.nodir", ms, <<>>, <<>>, TRUE)
    ELSE IF Len(f.dir) = 0
    THEN TemplateOutcome("runTemplate.empty", ms, <<>>, <<>>, TRUE)
    ELSE runTemplateDir(runTemplateEach(ms, f.dir, f, answers, newId))

(***************************************************************************)
(* The state machine of the template command: one process runs the         *)
(* command once; hist holds the reports of its ApplyTemplate calls.        *)
(***************************************************************************)
MaxFiles == 2

CpuTemplate ==
    [name |-> <<"cpu">>, hasConfig |-> TRUE,
     config |-> [name |-> <<"cpu">>, query |-> <<"avg:cpu{", ServicePlaceholder, "}">>,
                 tags |-> <<"team:x">>]]

CpuHighTemplate ==
    [name |-> <<>>, hasConfig |-> TRUE,
     config |-> [name |-> <<"cpu", " high">>, message |-> <<EnvPlaceholder>>]]

BareTemplate == [name |-> <<"C", "P", "U">>, hasConfig |-> FALSE, config |-> <<>>]

\* The files a directory holds.
DirectoryFiles ==
    { [kind |-> "unreadable", templates |-> <<>>, config |-> <<>>],
      [kind |-> "invalid", templates |-> <<>>, config |-> <<>>],
      [kind |-> "object", templates |-> <<>>, config |-> CpuTemplate.config],
      [kind |-> "object", templates |-> <<CpuTemplate, CpuHighTemplate>>, config |-> <<>>] }

\* The files --file names.
TemplateFiles ==
    DirectoryFiles \cup
    { [kind |-> "object", templates |-> <<CpuHighTemplate, BareTemplate, CpuTemplate>>,
       config |-> <<>>] }

Directories == UNION {[1..n -> DirectoryFiles] : n \in 0..MaxFiles}

TemplateFlags ==
    [env : {<<"h", "m", "l">>, <<"q", "a">>}, service : {<<"checkout">>},
     namespace : {<<"n1">>}, additionalTags : {<<"team:y">>}, upsert : BOOLEAN,
     hasFile : {TRUE}, file : TemplateFiles, dirExists : {TRUE}, dir : {<<>>},
     credentials : BOOLEAN]
    \cup
    [env : {<<"h", "m", "l">>}, service : {<<"checkout">>},
     namespace : {<<"n1">>}, additionalTags : {<<"team:y">>}, upsert : BOOLEAN,
     hasFile : {FALSE}, file : {[kind |-> "unreadable", templates |-> <<>>, config |-> <<>>]},
     dirExists : BOOLEAN, dir : Directories, credentials : {TRUE}]

ApplyAnswers == {"ok", "list_error", "update_error", "create_error"}

\* The templates the files of the flags hold.
RECURSIVE TemplatesOf(_)
TemplatesOf(files) ==
    IF files = <<>> THEN 0 ELSE TemplatesIn(Head(files)) + TemplatesOf(Tail(files))

TemplateCollections ==
    { <<>>,
      <<[id |-> 1, name |-> "cpu", tags |-> <<"team:x">>, overall_state |-> StateOK]>>,
      <<[id |-> 1, name |-> "CPU", tags |-> <<"team:x">>, overall_state |-> StateOK],
        [id |-> 2, name |-> "cpu high", tags |-> <<>>, overall_state |-> StateOK],
        [id |-> 3, name |-> "cpu high", tags |-> <<>>, overall_state |-> StateOK]>> }

InitTemplate ==
    /\ monitors \in TemplateCollections
    /\ keepsOmitted \in BOOLEAN
    /\ nextId = 4
    /\ pc = "idle"
    /\ op = ""
    /\ failed = FALSE
    /\ calls = <<>>
    /\ fetched = <<>>
    /\ resolved = <<>>
    /\ results = <<>>
    /\ hist = <<>>
    /\ input = <<>>
    /\ output = <<>>

\* The command returns.
Templated(f, out) ==
    /\ monitors' = out.ms
    /\ nextId' = nextId + Len(out.ms) - Len(monitors)
    /\ op' = out.op
    /\ failed' = out.failed
    /\ calls' = out.calls
    /\ hist' = out.reports
    /\ input' = f
    /\ pc' = "done"
    /\ UNCHANGED <<keepsOmitted, fetched, resolved, results, output>>

Template ==
    /\ pc = "idle"
    /\ \E f \in TemplateFlags :
       \E answers \in [1..(IF f.hasFile THEN TemplatesIn(f.file) ELSE TemplatesOf(f.dir))
                          -> ApplyAnswers] :
          Templated(f, runTemplate(monitors, f, answers, nextId))

NextTemplate == Template

SpecTemplate == InitTemplate /\ [][NextTemplate]_vars

(***************************************************************************)
(* Properties of the template command (SpecTemplate).                      *)
(***************************************************************************)
\* The reports of the ApplyTemplate calls of a finished command.
Reports == IF pc = "done" /\ op \in {"runTemplate.file", "runTemplate.dir"} THEN hist ELSE <<>>

\* C11: with upsert disabled, ApplyTemplate issues nothing but creates, one
\* per template it reaches and no list or update call; when a create fails,
\* ApplyTemplate returns an error and no result entry, so nothing reports
\* that monitor as created; when every create succeeds, each template has a
\* result entry with was_created.
C11_CreateOnlyWhenUpsertDisabled ==
    \A k \in 1..Len(Reports) :
        ~Reports[k].upsert =>
            LET h == Reports[k]
                n == TemplatesIn(h.file)
            IN  /\ \A i \in 1..Len(h.calls) : h.calls[i].call = "POST"
                /\ Len(h.calls) <= n
                /\ \A i \in 1..(Len(h.calls) - 1) : h.calls[i].ok
                /\ (\E i \in 1..Len(h.calls) : ~h.calls[i].ok) =>
                        (~h.ok /\ h.results = <<>> /\ (input.hasFile => failed))
                /\ (h.file.kind = "object" /\ \A i \in 1..Len(h.calls) : h.calls[i].ok) =>
                        /\ h.ok
                        /\ Len(h.calls) = n
                        /\ Len(h.results) = n
                        /\ \A i \in 1..n : h.results[i].was_created
                        /\ Len(h.after) = Len(h.before) + n

C11_Witness ==
    /\ pc = "done"
    /\ op = "runTemplate.file"
    /\ failed
    /\ ~input.upsert
    /\ Len(hist) = 1
    /\ \E i \in 1..Len(hist[1].before) : hist[1].before[i].name = "cpu"
    /\ Len(hist[1].calls) = 2
    /\ hist[1].calls[1].call = "POST" /\ hist[1].calls[1].ok
    /\ hist[1].calls[2].call = "POST" /\ ~hist[1].calls[2].ok
    /\ hist[1].results = <<>>
    /\ Len(hist[1].after) = Len(hist[1].before) + 1

(***************************************************************************)
(* SpecCustomize: one call of CustomizeTemplate.  input holds the          *)
(* arguments, output the map returned.                                     *)
(***************************************************************************)
MaxText == 2

\* What a template's texts are made of: the placeholders, the sentinel as
\* plain text, and other text.
TextTokens ==
    {ServicePlaceholder, EnvPlaceholder, NamespacePlaceholder, ServicePreserve, "x"}

Texts == UNION {[1..n -> TextTokens] : n \in 1..MaxText}

\* "sum(last_5m):sum:http.requests{service:{service}} by {service}"
RequestsQuery ==
    <<"sum(last_5m):sum:http.requests{service:", ServicePlaceholder, "}", " ">>
        \o By \o <<ServicePlaceholder>>

Queries ==
    {RequestsQuery, By \o <<ServicePlaceholder>> \o By \o <<ServicePlaceholder>>}
        \cup {pre \o t : pre \in {<<>>, By, <<"b", "y">>}, t \in Texts}

Names ==
    {<<"C", "P", "U", " ", ServicePlaceholder, " ", EnvPlaceholder, " ", NamespacePlaceholder>>,
     <<EnvPlaceholder, "-", EnvPlaceholder>> \o By \o <<ServicePlaceholder>>,
     <<"plain">>}

TemplateTagLists ==
    {<<>>, <<"service:checkout">>, <<"team:y", "team:y", "namespace:n1">>,
     <<"service:{service}", "env:hml">>}

\* Templates with and without the keys CustomizeTemplate looks at.
Templates ==
    {[type |-> "metric alert", name |-> n, query |-> q, message |-> n, tags |-> t] :
        n \in Names, q \in Queries, t \in TemplateTagLists}
    \cup {[type |-> "metric alert", query |-> q] : q \in Queries}
    \cup {[type |-> "metric alert", name |-> n, tags |-> t] :
            n \in Names, t \in TemplateTagLists}

Services == {<<"checkout">>, <<ServicePreserve>>}

Envs == {<<"h", "m", "l">>, <<"P", "r", "d">>}

Namespaces == {<<"n1">>}

AdditionalTagLists ==
    {<<>>, <<"team:y", "owner:z">>, <<"owner:z", "service:checkout", "owner:z", "env:Prd">>}

InitCustomize ==
    /\ monitors = <<>>
    /\ keepsOmitted = FALSE
    /\ nextId = 1
    /\ pc = "idle"
    /\ op = ""
    /\ failed = FALSE
    /\ calls = <<>>
    /\ fetched = <<>>
    /\ resolved = <<>>
    /\ results = <<>>
    /\ hist = <<>>
    /\ input \in [template : Templates, service : Services, env : Envs,
                  namespace : Namespaces, additionalTags : AdditionalTagLists]
    /\ output = <<>>

Customize ==
    /\ pc = "idle"
    /\ output' = CustomizeTemplate(input.template, input.service, input.env,
                                   input.namespace, input.additionalTags)
    /\ op' = "CustomizeTemplate"
    /\ pc' = "done"
    /\ UNCHANGED <<monitors, keepsOmitted, nextId, failed, calls, fetched, resolved,
                   results, hist, input>>

NextCustomize == Customize

SpecCustomize == InitCustomize /\ [][NextCustomize]_vars

(***************************************************************************)
(* Properties of CustomizeTemplate (SpecCustomize).                        *)
(***************************************************************************)
Customized == pc = "done" /\ op = "CustomizeTemplate"

RECURSIVE Flatten(_)
Flatten(texts) == IF texts = <<>> THEN <<>> ELSE Head(texts) \o Flatten(Tail(texts))

\* What a token of a text is to become: a placeholder its value, anything
\* else itself.
Filling(token, service, env, namespace) ==
    CASE token = ServicePlaceholder -> service
      [] token = EnvPlaceholder -> env
      [] token = NamespacePlaceholder -> namespace
      [] OTHER -> <<token>>

Filled(text, service, env, namespace) ==
    Flatten([i \in 1..Len(text) |-> Filling(text[i], service, env, namespace)])

\* The i-th token of the query is the {service} of a "by {service}".
AfterBy(query, i) ==
    query[i] = ServicePlaceholder /\ i > Len(By) /\ SubSeq(query, i - Len(By), i - 1) = By

FilledQuery(query, service, env, namespace) ==
    Flatten([i \in 1..Len(query) |->
                IF AfterBy(query, i) THEN <<query[i]>>
                ELSE Filling(query[i], service, env, namespace)])

HasToken(text, token) == \E i \in 1..Len(text) : text[i] = token

\* C12: in the customized query every "by {service}" of the template's query
\* is unchanged and every other {service} is the service value (the other
\* placeholders their values, the rest of the text as it was).
C12_ByServicePreserved ==
    (Customized /\ "query" \in DOMAIN input.template) =>
        output["query"] = FilledQuery(input.template["query"], input.service,
                                      input.env, input.namespace)

\* The query and service of C12's example give its result.
C12_RequestsQueryCustomized ==
    /\ Customized
    /\ "query" \in DOMAIN input.template
    /\ input.template["query"] = RequestsQuery
    /\ input.service = <<"checkout">>
    /\ output["query"] = <<"sum(last_5m):sum:http.requests{service:", "checkout", "}", " ",
                           "b", "y", " ", ServicePlaceholder>>

Occurrences(tags, tag) == Cardinality({i \in 1..Len(tags) : tags[i] = tag})

\* C14: the customized tag list is the template's tags, then those of
\* service:<service>, env:<env>, namespace:<namespace> the template's tags do
\* not hold, then the extra tags that are in neither, each once at its first
\* occurrence; a template tag service:checkout with service checkout gives
\* one service:checkout.
C14_TagsInOrderWithoutRepeats ==
    Customized =>
        LET own == IF "tags" \in DOMAIN input.template THEN input.template["tags"] ELSE <<>>
            derived == <<"service:" \o Spell(input.service), "env:" \o Spell(input.env),
                         "namespace:" \o Spell(input.namespace)>>
            added == SelectSeq(derived, LAMBDA tag : tag \notin Range(own))
            extra == FirstOccurrences(input.additionalTags, Range(own) \cup Range(added))
        IN  /\ output["tags"] = own \o added \o extra
            /\ \A i \in 1..Len(derived) : Occurrences(output["tags"], derived[i]) =
                    IF derived[i] \in Range(own) THEN Occurrences(own, derived[i]) ELSE 1
            /\ \A tag \in Range(input.additionalTags) :
                    Occurrences(output["tags"], tag) =
                        IF tag \in Range(own) THEN Occurrences(own, tag) ELSE 1

C14_Witness ==
    /\ Customized
    /\ input.service = <<"checkout">>
    /\ input.env = <<"P", "r", "d">>
    /\ "tags" \in DOMAIN input.template
    /\ input.template["tags"] = <<"service:checkout">>
    /\ input.additionalTags = <<"owner:z", "service:checkout", "owner:z", "env:Prd">>
    /\ output["tags"] = <<"service:checkout", "env:Prd", "namespace:n1", "owner:z">>

(***************************************************************************)
(* SpecResolve: the local filters that resolve monitors from a list.       *)
(* input holds the arguments, output the monitors selected.                *)
(***************************************************************************)
\* Spellings of states, each with the form it is to be compared by.
StateSpellings ==
    { [text |-> <<"N", "o", "-", "D", "a", "t", "a">>, form |-> "no data"],
      [text |-> <<"n", "o", "_", "d", "a", "t", "a">>, form |-> "no data"],
      [text |-> <<"N", "o", " ", " ", " ", "D", "a", "t", "a">>, form |-> "no data"],
      [text |-> <<" ", "N", "O", " ", "D", "A", "T", "A", " ">>, form |-> "no data"],
      [text |-> StateNoData, form |-> "no data"],
      [text |-> <<"N", "o", " ", "D", "a", "t", "a", " ", "Y", "e", "t">>, form |-> "no data yet"],
      [text |-> <<"N", "o">>, form |-> "no"],
      [text |-> <<"D", "a", "t", "a">>, form |-> "data"],
      [text |-> StateOK, form |-> "ok"],
      [text |-> <<" ", " ">>, form |-> ""],
      [text |-> <<>>, form |-> ""] }

FormOf(text) == (CHOOSE sp \in StateSpellings : sp.text = text).form

\* The monitors of a list to filter: each takes one of these shapes.
ListedShapes ==
    { [tags |-> <<"service:a", "env:hml">>, overall_state |-> StateOK],
      [tags |-> <<"service:b", "env:hml">>, overall_state |-> StateNoData],
      [tags |-> <<"service:ab", "env:hml", "namespace:n1">>,
       overall_state |-> <<"n", "o", "_", "d", "a", "t", "a">>],
      [tags |-> <<"team:x">>,
       overall_state |-> <<"N", "o", " ", "D", "a", "t", "a", " ", "Y", "e", "t">>],
      [tags |-> <<"env:hml", "namespace:n1", "service:a">>,
       overall_state |-> <<"N", "o", "-", "D", "a", "t", "a">>],
      [tags |-> <<>>, overall_state |-> <<"N", "o">>] }

ListedMonitors ==
    UNION {{[i \in 1..n |-> [id |-> i, name |-> MonitorName(i), tags |-> sh[i].tags,
                             overall_state |-> sh[i].overall_state]] :
                sh \in [1..n -> ListedShapes]} : n \in 0..MaxMonitors}

StateArguments == {[desiredState |-> sp.text] : sp \in StateSpellings}

TagArguments == [service : {"", "a", "b"}, env : {"", "hml"}, namespace : {"", "n1"}]

\* Texts to canonicalize: the spellings, and texts that begin or end with
\* "-" or "_".
TextArguments ==
    {[text |-> sp.text] : sp \in StateSpellings}
        \cup {[text |-> t] : t \in {<<"_", "O", "K">>, <<"O", "K", "-">>, <<"-">>,
                                    <<" ", "_", "N", "o", "-", "-", "D", "a", "t", "a", "_", " ">>}}

InitResolve ==
    /\ monitors \in ListedMonitors
    /\ keepsOmitted = FALSE
    /\ nextId = MaxMonitors + 1
    /\ pc = "idle"
    /\ op = ""
    /\ failed = FALSE
    /\ calls = <<>>
    /\ fetched = <<>>
    /\ resolved = <<>>
    /\ results = <<>>
    /\ hist = <<>>
    /\ input \in StateArguments \cup TagArguments \cup TextArguments
    /\ output = <<>>

Resolved(name, list) ==
    /\ op' = name
    /\ output' = list
    /\ pc' = "done"
    /\ UNCHANGED <<monitors, keepsOmitted, nextId, failed, calls, fetched, resolved,
                   results, hist, input>>

SelectByState ==
    /\ pc = "idle"
    /\ input \in StateArguments
    /\ Resolved("filterMonitorsByState", filterMonitorsByState(monitors, input.desiredState))

SelectByTags ==
    /\ pc = "idle"
    /\ input \in TagArguments
    /\ Resolved("filterMonitorsByServiceEnvNamespace",
                filterMonitorsByServiceEnvNamespace(monitors, input.service, input.env,
                                                    input.namespace))

\* The same filter as the client's bulk operations apply it to their list.
FilterInClient ==
    /\ pc = "idle"
    /\ input \in TagArguments
    /\ Resolved("FilteredMonitors",
                FilteredMonitors(monitors, input.service, input.env, input.namespace))

Canonicalize ==
    /\ pc = "idle"
    /\ input \in TextArguments
    /\ Resolved("canonicalMonitorState", canonicalMonitorState(input.text))

NextResolve == SelectByState \/ SelectByTags \/ FilterInClient \/ Canonicalize

SpecResolve == InitResolve /\ [][NextResolve]_vars

(***************************************************************************)
(* Properties of the local filters (SpecResolve).                          *)
(***************************************************************************)
\* C15: the state filter keeps, in order, the monitors whose state has the
\* form of the wanted state (every monitor when the wanted state is blank):
\* No-Data, no_data and No   Data select the monitors in state No Data, in
\* any of these spellings, and none in state No, Data or No Data Yet.
C15_StateComparedByCanonicalForm ==
    (pc = "done" /\ op = "filterMonitorsByState") =>
        output = IF FormOf(input.desiredState) = "" THEN monitors
                 ELSE SelectSeq(monitors, LAMBDA m :
                        FormOf(m.overall_state) = FormOf(input.desiredState))

C15_Witness ==
    /\ pc = "done"
    /\ op = "filterMonitorsByState"
    /\ input.desiredState = <<"N", "o", " ", " ", " ", "D", "a", "t", "a">>
    /\ Len(monitors) = 3
    /\ monitors[1].overall_state = <<"N", "o", " ", "D", "a", "t", "a", " ", "Y", "e", "t">>
    /\ monitors[2].overall_state = <<"n", "o", "_", "d", "a", "t", "a">>
    /\ monitors[3].overall_state = <<"N", "o">>
    /\ output = <<monitors[2]>>

\* C16: the service/env/namespace filter keeps, in order, the monitors whose
\* tags hold the string key:value of every constraint given, in the commands
\* and in the client alike.
C16_ExactTagConstraints ==
    (pc = "done" /\ op \in {"filterMonitorsByServiceEnvNamespace", "FilteredMonitors"}) =>
        output = SelectSeq(monitors, LAMBDA m :
                    /\ input.service = "" \/ ("service:" \o input.service) \in Range(m.tags)
                    /\ input.env = "" \/ ("env:" \o input.env) \in Range(m.tags)
                    /\ input.namespace = "" \/ ("namespace:" \o input.namespace) \in Range(m.tags))

C16_Witness ==
    /\ pc = "done"
    /\ op = "FilteredMonitors"
    /\ input = [service |-> "a", env |-> "hml", namespace |-> ""]
    /\ Len(monitors) = 3
    /\ monitors[1].tags = <<"service:a", "env:hml">>
    /\ monitors[2].tags = <<"service:b", "env:hml">>
    /\ monitors[3].tags = <<"service:ab", "env:hml", "namespace:n1">>
    /\ output = <<monitors[1]>>

(***************************************************************************)
(* The delete, delete-all and list commands.  f holds the flags and the    *)
(* environment (credentials: both keys are set).                           *)
(***************************************************************************)
\* Mutant: delete does not look at --confirm.
runDelete_Unconfirmed(ms, f, o) ==
    IF ~NewClient(f.credentials)
    THEN Outcome("runDelete.noclient", ms, <<>>, <<>>, <<>>, <<>>, TRUE)
    ELSE Outcome("runDelete", DeleteMonitor(ms, f.monitorID, o).ms,
                 DeleteMonitor(ms, f.monitorID, o).calls, <<>>, <<>>, <<>>,
                 ~DeleteMonitor(ms, f.monitorID, o).ok)

runDelete(ms, f, o) ==
    IF ~f.confirm
    THEN Outcome("runDelete.unconfirmed", ms, <<>>, <<>>, <<>>, <<>>, TRUE)
    ELSE IF ~NewClient(f.credentials)
    THEN Outcome("runDelete.noclient", ms, <<>>, <<>>, <<>>, <<>>, TRUE)
    ELSE Outcome("runDelete", DeleteMonitor(ms, f.monitorID, o).ms,
                 DeleteMonitor(ms, f.monitorID, o).calls, <<>>, <<>>, <<>>,
                 ~DeleteMonitor(ms, f.monitorID, o).ok)

\* runDeleteAll once the user confirmed and DeleteMonitorsByFilter returned
\* deleted: its list error is returned, its entries are printed.
runDeleteAllConfirmed(listed, filteredMonitors, deleted) ==
    Outcome("runDeleteAll", deleted.ms, listed.calls \o deleted.calls, listed.monitors,
            filteredMonitors, deleted.results, deleted.failed)

\* runDeleteAll once its own filter loop kept filteredMonitors; confirm is
\* the line read from standard input.
runDeleteAllFiltered(ms, f, confirm, listed, filteredMonitors, listOk, outs) ==
    IF Len(filteredMonitors) = 0
    THEN Outcome("runDeleteAll.none", ms, listed.calls, listed.monitors, <<>>, <<>>, FALSE)
    ELSE IF TrimSpace(ToLower(confirm)) # <<"y", "e", "s">>
    THEN Outcome("runDeleteAll.cancelled", ms, listed.calls, listed.monitors,
                 filteredMonitors, <<>>, FALSE)
    ELSE runDeleteAllConfirmed(listed, filteredMonitors,
            DeleteMonitorsByFilter(ms, f.service, f.env, f.namespace, FilterTagList(f.tags),
                                   listOk, outs))

runDeleteAllListed(ms, f, confirm, listed, listOk, outs) ==
    IF ~listed.ok THEN ListFailed("runDeleteAll.list", ms, listed)
    ELSE runDeleteAllFiltered(ms, f, confirm, listed,
            FilteredMonitors(listed.monitors, f.service, f.env, f.namespace), listOk, outs)

\* firstOk answers the command's own list call, listOk the one of
\* DeleteMonitorsByFilter.
runDeleteAll(ms, f, confirm, firstOk, listOk, outs) ==
    IF ~NewClient(f.credentials)
    THEN Outcome("runDeleteAll.noclient", ms, <<>>, <<>>, <<>>, <<>>, TRUE)
    ELSE runDeleteAllListed(ms, f, confirm,
            ListMonitors(ms, FilterTagList(f.tags), "", firstOk, {}), listOk, outs)

\* strings.Contains(text, ":"): of the texts drawn, the tags hold a colon.
ContainsColon(text) == text \in TagUniverse

\* The search text of list: --tags, or else the first positional argument
\* that holds a colon.
listTags(f) ==
    IF f.tags = "" /\ \E i \in 1..Len(f.args) : ContainsColon(f.args[i])
    THEN f.args[CHOOSE i \in 1..Len(f.args) :
                    ContainsColon(f.args[i]) /\ \A j \in 1..(i - 1) : ~ContainsColon(f.args[j])]
    ELSE f.tags

\* The tags list builds from --service, --env and --namespace.
listFilterTags(f) ==
    (IF f.service # "" THEN <<"service:" \o f.service>> ELSE <<>>)
        \o (IF f.env # "" THEN <<"env:" \o f.env>> ELSE <<>>)
        \o (IF f.namespace # "" THEN <<"namespace:" \o f.namespace>> ELSE <<>>)

\* runList once ListMonitors returned listed: the limit is applied and the
\* monitors are printed.
runListListed(ms, f, listed) ==
    IF ~listed.ok THEN ListFailed("runList", ms, listed)
    ELSE Outcome("runList", ms, listed.calls, listed.monitors,
                 IF f.limit > 0 /\ Len(listed.monitors) > f.limit
                 THEN SubSeq(listed.monitors, 1, f.limit) ELSE listed.monitors,
                 <<>>, FALSE)

runListMonitor(ms, got) ==
    Outcome("runList.monitor", ms, got.calls, <<>>,
            IF got.ok THEN <<got.monitor>> ELSE <<>>, <<>>, ~got.ok)

runList(ms, f, listOk, matched, o) ==
    IF ~NewClient(f.credentials)
    THEN Outcome("runList.noclient", ms, <<>>, <<>>, <<>>, <<>>, TRUE)
    ELSE IF f.monitorID > 0 /\ f.tagsOnly
    THEN runListMonitor(ms, GetMonitor(ms, f.monitorID, o))
    ELSE IF listTags(f) # ""
    THEN IF ContainsColon(listTags(f))
         THEN runListListed(ms, f, ListMonitors(ms, <<listTags(f)>>, "", listOk, {}))
         ELSE runListListed(ms, f, ListMonitors(ms, <<>>, listTags(f), listOk, matched))
    ELSE runListListed(ms, f, ListMonitors(ms, listFilterTags(f), "", listOk, {}))

(***************************************************************************)
(* SpecCommand: one run of a command; input holds the command, its flags   *)
(* and what it read.                                                       *)
(***************************************************************************)
CommandFlags ==
    [credentials : BOOLEAN, monitorID : {-1, 0, 1}, service : {"", "a"}, env : {"", "hml"},
     namespace : {"", "n1"}, filterTags : {<<>>, <<"team:x">>},
     query : {"", "service:(a OR b)"}, status : {<<>>, StatusNoData},
     tags : {<<>>, <<"team:y">>}]

DeleteFlags == [credentials : BOOLEAN, monitorID : {1, 2}, confirm : BOOLEAN]

DeleteAllFlags ==
    [credentials : BOOLEAN, service : {"", "a"}, env : {"", "hml"}, namespace : {""},
     tags : {<<>>, <<"team:x">>}]

\* Lines read from standard input, without the line end.
ConfirmLines ==
    {<<"y", "e", "s">>, <<" ", "Y", "e", "S", " ">>, <<"y">>, <<"n", "o">>, <<>>,
     <<"y", "e", "s", " ", "!">>}

ListFlags ==
    [credentials : {TRUE}, monitorID : {0}, tagsOnly : {FALSE}, service : {"", "a"},
     env : {"", "hml"}, namespace : {""}, tags : {"", "team:x", "cpu"},
     args : {<<>>, <<"cpu", "team:x">>}, limit : {0, 1}]
    \cup [credentials : BOOLEAN, monitorID : {0, 1}, tagsOnly : BOOLEAN, service : {""},
          env : {""}, namespace : {""}, tags : {""}, args : {<<>>}, limit : {0}]

InitCommand ==
    /\ monitors \in UNION {Collections(n) : n \in 0..MaxMonitors}
    /\ keepsOmitted \in BOOLEAN
    /\ nextId = MaxMonitors + 1
    /\ pc = "idle"
    /\ op = ""
    /\ failed = FALSE
    /\ calls = <<>>
    /\ fetched = <<>>
    /\ resolved = <<>>
    /\ results = <<>>
    /\ hist = <<>>
    /\ input = <<>>
    /\ output = <<>>

\* The command returns: its effects on the provider and what it reported;
\* hist keeps the collection it started from.
Commanded(command, f, line, out) ==
    /\ monitors' = out.ms
    /\ op' = out.op
    /\ failed' = out.failed
    /\ calls' = out.calls
    /\ fetched' = out.fetched
    /\ resolved' = out.resolved
    /\ results' = out.results
    /\ input' = [command |-> command, flags |-> f, line |-> line]
    /\ hist' = <<monitors>>
    /\ pc' = "done"
    /\ UNCHANGED <<keepsOmitted, nextId, output>>

AddTagsCommand ==
    /\ pc = "idle"
    /\ \E f \in CommandFlags, listOk \in BOOLEAN :
       \E matched \in (IF f.query # "" THEN SUBSET IdsOf(monitors) ELSE {{}}) :
          Commanded("add-tags", f, <<>>, runAddTags(monitors, f, listOk, matched, AllOk(monitors)))

RemoveTagsCommand ==
    /\ pc = "idle"
    /\ \E f \in CommandFlags, listOk \in BOOLEAN :
       \E matched \in (IF f.query # "" THEN SUBSET IdsOf(monitors) ELSE {{}}) :
          Commanded("remove-tags", f, <<>>,
                    runRemoveTags(monitors, f, listOk, matched, AllOk(monitors)))

DeleteCommand ==
    /\ pc = "idle"
    /\ \E f \in DeleteFlags, o \in DeleteOutcomes :
          Commanded("delete", f, <<>>, runDelete(monitors, f, o))

DeleteAllCommand ==
    /\ pc = "idle"
    /\ \E f \in DeleteAllFlags, confirm \in ConfirmLines, firstOk \in BOOLEAN,
          listOk \in BOOLEAN, outs \in [1..Len(monitors) -> DeleteOutcomes] :
          Commanded("delete-all", f, confirm,
                    runDeleteAll(monitors, f, confirm, firstOk, listOk, outs))

ListCommand ==
    /\ pc = "idle"
    /\ \E f \in ListFlags, listOk \in BOOLEAN, o \in {"ok", "get_error"} :
       \E matched \in (IF listTags(f) = "cpu" THEN SUBSET IdsOf(monitors) ELSE {{}}) :
          Commanded("list", f, <<>>, runList(monitors, f, listOk, matched, o))

NextCommand ==
    \/ AddTagsCommand
    \/ RemoveTagsCommand
    \/ DeleteCommand
    \/ DeleteAllCommand
    \/ ListCommand

SpecCommand == InitCommand /\ [][NextCommand]_vars

(***************************************************************************)
(* Properties of the commands (SpecCommand).                               *)
(***************************************************************************)
Ran(commands) == pc = "done" /\ input.command \in commands

\* One of --service, --env, --namespace, --filter-tags is given.
HasFilter(f) == f.service # "" \/ f.env # "" \/ f.namespace # "" \/ f.filterTags # <<>>

\* C17: add-tags and remove-tags with --query and a filter flag, or with a
\* positive --monitor-id and a filter flag, --query or --status, return the
\* validation error with no remote call, whether or not a client could be
\* created; with --query and --status alone (and a tag) they pass validation
\* and, given credentials, start with the list call of the query.
C17_ConflictingFlagsRejectedBeforeAnyCall ==
    Ran({"add-tags", "remove-tags"}) =>
        LET f == input.flags
        IN  /\ ( \/ f.query # "" /\ HasFilter(f)
                 \/ f.monitorID > 0 /\ (HasFilter(f) \/ f.query # "" \/ f.status # <<>>) ) =>
                    /\ op \in {"runAddTags.invalid", "runRemoveTags.invalid"}
                    /\ failed
                    /\ calls = <<>>
                    /\ monitors = hist[1]
            /\ ( /\ f.query # "" /\ f.status # <<>> /\ ~HasFilter(f)
                 /\ f.monitorID = 0 /\ f.tags # <<>> ) =>
                    /\ op \notin {"runAddTags.invalid", "runRemoveTags.invalid"}
                    /\ f.credentials =>
                          /\ op \in {"runAddTags.query", "runRemoveTags.query"}
                          /\ calls # <<>>
                          /\ calls[1].call = "LIST"

C17_Witness ==
    /\ Ran({"add-tags"})
    /\ input.flags.query # ""
    /\ input.flags.namespace = "n1"
    /\ input.flags.monitorID = 0
    /\ input.flags.tags # <<>>
    /\ ~input.flags.credentials
    /\ Len(hist[1]) = 2
    /\ op = "runAddTags.invalid"
    /\ failed
    /\ calls = <<>>

\* C18: list with --tags or a positional tag and with --service, --env or
\* --namespace resolves only monitors that have the tag key:value of each of
\* these.
C18_ListAppliesCompositeFilters ==
    (Ran({"list"}) /\ op = "runList" /\ ~failed /\ listTags(input.flags) # "") =>
        \A i \in 1..Len(resolved) :
            /\ input.flags.service = "" \/
                    ("service:" \o input.flags.service) \in Range(resolved[i].tags)
            /\ input.flags.env = "" \/ ("env:" \o input.flags.env) \in Range(resolved[i].tags)
            /\ input.flags.namespace = "" \/
                    ("namespace:" \o input.flags.namespace) \in Range(resolved[i].tags)

\* The lines that confirm delete-all.
YesLines == {<<"y", "e", "s">>, <<" ", "Y", "e", "S", " ">>}

Deletes == {i \in 1..Len(calls) : calls[i].call = "DELETE"}

\* C19: delete without --confirm issues no call; delete-all issues no delete
\* call unless the line read is yes; when the monitors it lists hold none
\* that passes its filter, delete-all returns after that list call, whatever
\* the line; in these cases the provider's collection is as it was.
C19_NoDeleteWithoutConfirmation ==
    /\ (Ran({"delete"}) /\ ~input.flags.confirm) =>
            (calls = <<>> /\ failed /\ monitors = hist[1])
    /\ (Ran({"delete-all"}) /\ input.line \notin YesLines) =>
            (Deletes = {} /\ monitors = hist[1])
    /\ (Ran({"delete-all"}) /\ calls # <<>> /\ calls[1].ok
            /\ \A i \in 1..Len(fetched) :
                  \/ input.flags.service # "" /\
                        ("service:" \o input.flags.service) \notin Range(fetched[i].tags)
                  \/ input.flags.env # "" /\
                        ("env:" \o input.flags.env) \notin Range(fetched[i].tags)) =>
            /\ op = "runDeleteAll.none"
            /\ Len(calls) = 1
            /\ ~failed
            /\ monitors = hist[1]

C19_Witness ==
    /\ Ran({"delete-all"})
    /\ input.line = <<"y", "e", "s", " ", "!">>
    /\ op = "runDeleteAll.cancelled"
    /\ Len(resolved) = 2
    /\ Len(calls) = 1
    /\ calls[1].call = "LIST"
    /\ monitors = hist[1]

(***************************************************************************)
(* Properties of the template directory (SpecTemplate).                    *)
(***************************************************************************)
\* C20: a run over a directory returns no error and has one report per file
\* in the directory's order, each file applied to the collection the file
\* before it left; the report of an unreadable file, of one that is no JSON
\* object and of one with a failed remote call carries the error.
C20_DirectoryContinuesAfterFailure ==
    (pc = "done" /\ op = "runTemplate.dir") =>
        /\ ~failed
        /\ Len(hist) = Len(input.dir)
        /\ \A k \in 1..Len(hist) :
              /\ hist[k].file = input.dir[k]
              /\ k > 1 => hist[k].before = hist[k - 1].after
              /\ hist[k].file.kind # "object" => (~hist[k].ok /\ hist[k].calls = <<>>)
              /\ (\E i \in 1..Len(hist[k].calls) : ~hist[k].calls[i].ok) =>
                    (~hist[k].ok /\ hist[k].results = <<>>)
              /\ hist[k].ok => Len(hist[k].results) = TemplatesIn(hist[k].file)
        /\ hist # <<>> => monitors = hist[Len(hist)].after

C20_Witness ==
    /\ pc = "done"
    /\ op = "runTemplate.dir"
    /\ ~failed
    /\ Len(hist) = 2
    /\ hist[1].file.kind = "object"
    /\ ~hist[1].ok
    /\ \E i \in 1..Len(hist[1].calls) : ~hist[1].calls[i].ok
    /\ hist[2].ok
    /\ Len(hist[2].results) = 2
    /\ Len(hist[2].after) > Len(hist[2].before)

(***************************************************************************)
(* Further properties of the tag mutations (SpecTags).                     *)
(***************************************************************************)
\* The body UpdateMonitor sends for monitor id with the tag list tags.
BodyWith(id, tags) ==
    MarshalMonitor([id |-> id, name |-> MonitorName(id), tags |-> tags,
                    overall_state |-> StateOK])

\* C30: the body of the update RemoveTagsFromMonitor sends carries the tag
\* list it computed, the empty one included, and after a successful removal
\* the stored tags are that list.
C30_RemoveSendsComputedTags ==
    \A k \in 1..Len(hist) :
        (hist[k].op = "RemoveTagsFromMonitor" /\ hist[k].ok) =>
            /\ "tags" \in DOMAIN BodyWith(hist[k].id, hist[k].sent)
            /\ BodyWith(hist[k].id, hist[k].sent)["tags"] = hist[k].sent
            /\ hist[k].after = hist[k].sent

(***************************************************************************)
(* Further properties of the local filters (SpecResolve).                  *)
(***************************************************************************)
\* C28: the canonical form of a text is its own canonical form and neither
\* begins nor ends with a space; "_OK" has the canonical form of "OK".
C28_CanonicalFormIsStable ==
    (pc = "done" /\ op = "canonicalMonitorState") =>
        /\ canonicalMonitorState(output) = output
        /\ output # <<>> => (Head(output) # " " /\ output[Len(output)] # " ")
        /\ input.text = <<"_", "O", "K">> => output = canonicalMonitorState(StateOK)

Applications(h) == {i \in 1..Len(h.calls) : h.calls[i].call \in {"POST", "PUT"} /\ h.calls[i].ok}

\* The templates of a report's file that ApplyTemplate reached: each starts
\* with a list call (upsert) or is one create.
Attempted(h) ==
    Cardinality({i \in 1..Len(h.calls) :
                    h.calls[i].call = (IF h.upsert THEN "LIST" ELSE "POST")})

\* C27: when a call for the k-th template of a file fails, it is the last
\* call ApplyTemplate issues, the k-1 templates before it were applied and
\* their monitors stay on the provider, and ApplyTemplate returns an error
\* and no result entry (the --file command fails with the provider changed).
C27_FailureDropsEarlierEntries ==
    \A n \in 1..Len(Reports) :
        LET h == Reports[n]
        IN  (\E i \in 1..Len(h.calls) : ~h.calls[i].ok) =>
                /\ ~h.calls[Len(h.calls)].ok
                /\ \A i \in 1..(Len(h.calls) - 1) : h.calls[i].ok
                /\ Attempted(h) <= TemplatesIn(h.file)
                /\ Cardinality(Applications(h)) = Attempted(h) - 1
                /\ Len(h.after) =
                      Len(h.before) + Cardinality({i \in Applications(h) : h.calls[i].call = "POST"})
                /\ \A i \in Applications(h) : \E j \in 1..Len(h.after) : h.after[j].id = h.calls[i].answer
                /\ ~h.ok
                /\ h.results = <<>>
                /\ input.hasFile => (failed /\ monitors = h.after)

C27_Witness ==
    /\ pc = "done"
    /\ op = "runTemplate.file"
    /\ failed
    /\ input.upsert
    /\ TemplatesIn(hist[1].file) = 3
    /\ Attempted(hist[1]) = 2
    /\ Len(hist[1].calls) = 4
    /\ hist[1].calls[2].call = "POST" /\ hist[1].calls[2].ok
    /\ hist[1].calls[4].call = "POST" /\ ~hist[1].calls[4].ok
    /\ Len(hist[1].after) = Len(hist[1].before) + 1
    /\ hist[1].results = <<>>

\* C25: add-tags and remove-tags given no --service, --env, --namespace,
\* --filter-tags and --query and no positive --monitor-id (zero or negative)
\* fail before any remote call: the paths that mutate the monitors selected
\* by filter are not taken, no call is issued and no monitor is changed.
C25_UnfilteredMutationNeverReached ==
    Ran({"add-tags", "remove-tags"}) =>
        LET f == input.flags
        IN  (~HasFilter(f) /\ f.query = "" /\ f.monitorID <= 0) =>
                /\ op \notin {"AddTagsToMonitors", "RemoveTagsFromMonitors",
                              "runAddTags.status", "runRemoveTags.status"}
                /\ failed
                /\ calls = <<>>
                /\ monitors = hist[1]

(***************************************************************************)
(* The filter branch of add-tags and remove-tags, with and without         *)
(* --status (SpecPaths): one command run per behaviour; input keeps the    *)
(* flags and the provider's answers, hist the collection before the run.   *)
(***************************************************************************)
StatusBlank == <<" ">>

PathFlags(tagLists) ==
    [credentials : {TRUE}, monitorID : {0}, service : {"", "a", "ab"}, env : {"", "hml"},
     namespace : {""}, filterTags : {<<>>, <<"team:x">>}, query : {""},
     status : {<<>>, StatusNoData, StatusBlank}, tags : tagLists]

InitPaths == InitBulk

PathRun(command, f, listOk, outs, out) ==
    /\ monitors' = out.ms
    /\ op' = out.op
    /\ failed' = out.failed
    /\ calls' = out.calls
    /\ fetched' = out.fetched
    /\ resolved' = out.resolved
    /\ results' = out.results
    /\ input' = [command |-> command, flags |-> f, listOk |-> listOk, outs |-> outs]
    /\ hist' = <<monitors>>
    /\ pc' = "done"
    /\ UNCHANGED <<keepsOmitted, nextId, output>>

AddTagsByFilter ==
    /\ pc = "idle"
    /\ \E f \in PathFlags({<<"team:y">>}), listOk \in BOOLEAN :
          LET n == Operations(runAddTags(monitors, f, listOk, {}, AllOk(monitors)))
          IN  \E outs \in [1..n -> Outcomes] :
                PathRun("add-tags", f, listOk, outs, runAddTags(monitors, f, listOk, {}, outs))

RemoveTagsByFilter ==
    /\ pc = "idle"
    /\ \E f \in PathFlags({<<"team:x">>}), listOk \in BOOLEAN :
          LET n == Operations(runRemoveTags(monitors, f, listOk, {}, AllOk(monitors)))
          IN  \E outs \in [1..n -> Outcomes] :
                PathRun("remove-tags", f, listOk, outs,
                        runRemoveTags(monitors, f, listOk, {}, outs))

NextPaths == AddTagsByFilter \/ RemoveTagsByFilter

SpecPaths == InitPaths /\ [][NextPaths]_vars

\* What the client's bulk method returns for the run's collection, flags and
\* provider answers.
BulkPath(ms, command, f, listOk, outs) ==
    IF command = "add-tags"
    THEN AddTagsToMonitors(ms, f.service, f.env, f.namespace, FilterTagList(f.filterTags),
                           f.tags, listOk, outs)
    ELSE RemoveTagsFromMonitors(ms, f.service, f.env, f.namespace,
                                FilterTagList(f.filterTags), f.tags, listOk, outs)

\* The monitors of the list that carry the run's service/env/namespace.
Selected(f, list) == filterMonitorsByServiceEnvNamespace(list, f.service, f.env, f.namespace)

\* The state predicate of the run excludes none of the selected monitors.
ExcludesNone(f, list) == filterMonitorsByState(Selected(f, list), f.status) = Selected(f, list)

\* C24: a run of add-tags or remove-tags with --status whose state predicate
\* excludes no monitor resolves the monitors, in the order, that the client's
\* bulk method resolves for the same collection, flags and provider answers,
\* and has the same result entries, calls, error and collection afterwards.
C24_StatusPathMatchesBulkPath ==
    (/\ pc = "done"
     /\ op \in {"runAddTags.status", "runRemoveTags.status"}
     /\ ExcludesNone(input.flags, fetched)) =>
        LET b == BulkPath(hist[1], input.command, input.flags, input.listOk, input.outs)
        IN  /\ resolved = b.resolved
            /\ results = b.results
            /\ calls = b.calls
            /\ failed = b.failed
            /\ fetched = b.fetched
            /\ monitors = b.ms

\* A status run over two selected monitors in state No Data, the first of
\* which fails and the second of which is updated.
C24_Witness ==
    /\ pc = "done"
    /\ op = "runAddTags.status"
    /\ input.flags.status = StatusNoData
    /\ input.flags.filterTags = <<"team:x">>
    /\ input.flags.service = "ab"
    /\ Len(hist[1]) = 3
    /\ Len(fetched) = 3
    /\ Len(resolved) = 2
    /\ Len(results) = 2
    /\ results[1].status # "updated"
    /\ results[2].status = "updated"
    /\ ExcludesNone(input.flags, fetched)

(***************************************************************************)
(* Two invocations against one provider (SpecRace).  Each process runs one *)
(* client method or command, one remote call per step, so that the calls   *)
(* of the two interleave: pc[p] is the call process p issues next,         *)
(* input[p] what it was invoked with, fetched[p] its local variables,      *)
(* results[p] its result entries, failed[p] whether it returned an error,  *)
(* and hist the remote calls in the order the provider served them.        *)
(***************************************************************************)
Procs == {1, 2}

Program(kind, monitorID, tags, service, name) ==
    [kind |-> kind, monitorID |-> monitorID, tags |-> tags, service |-> service,
     monitor |-> [id |-> 0, name |-> name, tags |-> tags, overall_state |-> <<>>]]

\* AddTagsToMonitor / RemoveTagsFromMonitor on monitor 1.
Singles ==
    {Program("AddTagsToMonitor", 1, <<t>>, "", "") : t \in {"team:y", "team:z", "service:a"}}
    \cup {Program("RemoveTagsFromMonitor", 1, <<"team:x">>, "", "")}

\* AddTagsToMonitors / RemoveTagsFromMonitors with no constraint.
Bulks ==
    {Program("AddTagsToMonitors", 0, <<"team:y">>, "", ""),
     Program("RemoveTagsFromMonitors", 0, <<"team:x">>, "", "")}

Upserts == {Program("UpsertMonitor", 0, <<"service:a">>, "", n) : n \in {"cpu", MonitorName(1)}}

\* delete-all --service a.
DeleteAlls == {Program("runDeleteAll", 0, <<>>, "a", "")}

RaceCollections ==
    { <<[id |-> 1, name |-> MonitorName(1), tags |-> <<"team:x">>, overall_state |-> StateOK]>>,
      <<[id |-> 1, name |-> MonitorName(1), tags |-> <<"team:x">>, overall_state |-> StateOK],
        [id |-> 2, name |-> MonitorName(2), tags |-> <<"team:x", "service:a">>,
         overall_state |-> StateNoData]>> }

FirstCallOf(program) ==
    IF program.kind \in {"AddTagsToMonitor", "RemoveTagsFromMonitor"} THEN "get"
    ELSE IF program.kind \in {"AddTagsToMonitors", "RemoveTagsFromMonitors"} THEN "list"
    ELSE IF program.kind = "UpsertMonitor" THEN "find"
    ELSE "show"

NoLocals == [got |-> <<>>, rest |-> <<>>, resolved |-> <<>>, shown |-> <<>>]

InitRace ==
    /\ monitors \in RaceCollections
    /\ keepsOmitted \in BOOLEAN
    /\ nextId = Len(monitors) + 1
    /\ input \in [Procs -> Singles \cup Bulks \cup Upserts \cup DeleteAlls]
    /\ input[2] \in Singles \cup Upserts
    /\ pc = [p \in Procs |-> FirstCallOf(input[p])]
    /\ fetched = [p \in Procs |-> NoLocals]
    /\ results = [p \in Procs |-> <<>>]
    /\ failed = [p \in Procs |-> FALSE]
    /\ hist = <<>>
    /\ op = ""
    /\ calls = <<>>
    /\ resolved = <<>>
    /\ output = <<>>

IsBulk(program) == program.kind \in {"AddTagsToMonitors", "RemoveTagsFromMonitors"}

IsAdd(program) == program.kind \in {"AddTagsToMonitor", "AddTagsToMonitors"}

\* The calls cs of process p as the provider served them; monitor is the
\* definition the call returned (GET, lookup) or carried (PUT, POST).
Events(p, cs, monitor) ==
    [i \in 1..Len(cs) |->
        [proc |-> p, call |-> cs[i].call, id |-> cs[i].id, ok |-> cs[i].ok,
         answer |-> cs[i].answer, monitor |-> monitor]]

\* Process p has issued the calls of events and goes on at next.
Step(p, next, ms, locals, entries, isErr, events) ==
    /\ pc' = [pc EXCEPT ![p] = next]
    /\ monitors' = ms
    /\ nextId' = IF Len(ms) > Len(monitors) THEN nextId + 1 ELSE nextId
    /\ fetched' = [fetched EXCEPT ![p] = locals]
    /\ results' = [results EXCEPT ![p] = entries]
    /\ failed' = [failed EXCEPT ![p] = isErr]
    /\ hist' = hist \o events
    /\ UNCHANGED <<keepsOmitted, op, calls, resolved, input, output>>

\* The monitor the next get or update of process p is about.
Target(p) == IF IsBulk(input[p]) THEN Head(fetched[p].rest).id ELSE input[p].monitorID

\* The tag mutation of process p once its GetMonitor returned got.
TagsGot(p, got, o) ==
    IF IsAdd(input[p]) THEN AddTagsGot(monitors, Target(p), input[p].tags, got, o)
    ELSE RemoveTagsGot(monitors, Target(p), input[p].tags, got, o)

\* The body of a bulk loop ends with entry: on to the next monitor.
NextTurn(p, first, ms, entry, events) ==
    Step(p, IF Len(fetched[p].rest) > 1 THEN first ELSE "done", ms,
         [fetched[p] EXCEPT !.rest = Tail(@)], Append(results[p], entry), FALSE, events)

\* The tag mutation of the current monitor returned r, its calls from the
\* from-th on being new.
Turned(p, r, from) ==
    IF IsBulk(input[p])
    THEN NextTurn(p, "get", r.ms,
                  IF ~r.ok THEN FailedEntry(Head(fetched[p].rest), r.err)
                  ELSE UpdatedEntry(r.monitor),
                  Events(p, SubSeq(r.calls, from, Len(r.calls)), r.sent))
    ELSE Step(p, "done", r.ms, fetched[p], results[p], ~r.ok,
              Events(p, SubSeq(r.calls, from, Len(r.calls)), r.sent))

GetReturned(p, got, o) ==
    IF got.ok
    THEN Step(p, "update", monitors, [fetched[p] EXCEPT !.got = got], results[p], FALSE,
              Events(p, got.calls, got.monitor))
    ELSE Turned(p, TagsGot(p, got, o), 1)

\* c.GetMonitor(monitorID) of AddTagsToMonitor / RemoveTagsFromMonitor.
Get(p) ==
    /\ pc[p] = "get"
    /\ \E o \in {"ok", "get_error"} : GetReturned(p, GetMonitor(monitors, Target(p), o), o)

\* The tags are computed from what the get returned and c.UpdateMonitor is
\* called, on the collection as it is by now.
Update(p) ==
    /\ pc[p] = "update"
    /\ \E o \in {"ok", "update_error"} : Turned(p, TagsGot(p, fetched[p].got, o), 2)

Listed(p, listed, first) ==
    IF ~listed.ok
    THEN Step(p, "done", monitors, fetched[p], results[p], TRUE,
              Events(p, listed.calls, UnmarshalMonitor(<<>>)))
    ELSE Step(p,
              IF FilteredMonitors(listed.monitors, input[p].service, "", "") = <<>>
              THEN "done" ELSE first,
              monitors,
              [fetched[p] EXCEPT
                  !.rest = FilteredMonitors(listed.monitors, input[p].service, "", ""),
                  !.resolved = FilteredMonitors(listed.monitors, input[p].service, "", "")],
              results[p], FALSE, Events(p, listed.calls, UnmarshalMonitor(<<>>)))

\* c.ListMonitors(tags, "") and the filter loop of AddTagsToMonitors,
\* RemoveTagsFromMonitors and DeleteMonitorsByFilter.
List(p) ==
    /\ pc[p] = "list"
    /\ \E listOk \in BOOLEAN :
          Listed(p, ListMonitors(monitors, <<>>, "", listOk, {}),
                 IF input[p].kind = "runDeleteAll" THEN "delete" ELSE "get")

Looked(p, existing) ==
    IF existing.ok
    THEN Step(p, "decide", monitors, [fetched[p] EXCEPT !.got = existing], results[p], FALSE,
              Events(p, existing.calls, existing.monitor))
    ELSE Step(p, "done", monitors, fetched[p], results[p], TRUE,
              Events(p, UpsertLooked(monitors, input[p].monitor, existing, "ok", nextId).calls,
                     existing.monitor))

\* c.FindMonitorByName(monitor.Name) of UpsertMonitor.
Find(p) ==
    /\ pc[p] = "find"
    /\ \E listOk \in BOOLEAN :
          Looked(p, FindMonitorByName(monitors, input[p].monitor.name, listOk))

Upserted(p, r) ==
    Step(p, "done", r.ms, fetched[p], results[p], ~r.ok,
         Events(p, SubSeq(r.calls, 2, Len(r.calls)), input[p].monitor))

\* UpsertMonitor after the lookup: c.UpdateMonitor(existing.ID, monitor) or
\* c.CreateMonitor(monitor), on the collection as it is by now.
Decide(p) ==
    /\ pc[p] = "decide"
    /\ \E o \in UpsertOutcomes :
          Upserted(p, UpsertLooked(monitors, input[p].monitor, fetched[p].got, o, nextId))

Shown(p, listed) ==
    IF ~listed.ok
    THEN Step(p, "done", monitors, fetched[p], results[p], TRUE,
              Events(p, listed.calls, UnmarshalMonitor(<<>>)))
    ELSE Step(p,
              IF FilteredMonitors(listed.monitors, input[p].service, "", "") = <<>>
              THEN "done" ELSE "confirm",
              monitors,
              [fetched[p] EXCEPT
                  !.shown = FilteredMonitors(listed.monitors, input[p].service, "", "")],
              results[p], FALSE, Events(p, listed.calls, UnmarshalMonitor(<<>>)))

\* runDeleteAll up to the prompt: its own list call and filter loop, and the
\* monitors found printed.
Show(p) ==
    /\ pc[p] = "show"
    /\ \E firstOk \in BOOLEAN : Shown(p, ListMonitors(monitors, <<>>, "", firstOk, {}))

\* The line typed at the prompt is read: "yes" goes on to
\* DeleteMonitorsByFilter, anything else ends the command.
Confirm(p) ==
    /\ pc[p] = "confirm"
    /\ \E line \in {<<"y", "e", "s">>, <<"n", "o">>} :
          Step(p, IF TrimSpace(ToLower(line)) = <<"y", "e", "s">> THEN "list" ELSE "done",
               monitors, fetched[p], results[p], FALSE, <<>>)

Deleted(p, r) ==
    NextTurn(p, "delete", r.ms,
             IF ~r.ok THEN FailedEntry(Head(fetched[p].rest), r.err)
             ELSE DeletedEntry(Head(fetched[p].rest)),
             Events(p, r.calls, Head(fetched[p].rest)))

\* c.DeleteMonitor(monitor.ID) in the loop of DeleteMonitorsByFilter.
Delete(p) ==
    /\ pc[p] = "delete"
    /\ \E o \in DeleteOutcomes :
          Deleted(p, DeleteMonitor(monitors, Head(fetched[p].rest).id, o))

NextRace ==
    \E p \in Procs :
        \/ Get(p)
        \/ Update(p)
        \/ List(p)
        \/ Find(p)
        \/ Decide(p)
        \/ Show(p)
        \/ Confirm(p)
        \/ Delete(p)

SpecRace == InitRace /\ [][NextRace]_vars

(***************************************************************************)
(* Properties of concurrent invocations (SpecRace).                        *)
(***************************************************************************)
AllDone == \A p \in Procs : pc[p] = "done"

\* The remote calls served, by name, in order.
CallNames == [k \in 1..Len(hist) |-> hist[k].call]

AllCallsOk == \A k \in 1..Len(hist) : hist[k].ok

\* Both processes ran AddTagsToMonitor or RemoveTagsFromMonitor (on the same
\* monitor) to the end, with every call answered 200.
TwoMutationsDone ==
    /\ AllDone
    /\ \A p \in Procs : input[p] \in Singles
    /\ Len(hist) = 4
    /\ AllCallsOk

\* The tag delta of process p applied to a tag list.
Delta(p, tags) ==
    IF IsAdd(input[p]) THEN MergeTags(tags, input[p].tags) ELSE FilterTags(tags, input[p].tags)

\* The stored definition of monitor id has the non-tag fields of monitor.
SameButTags(ms, id, monitor) ==
    /\ Exists(ms, id)
    /\ Stored(ms, id).id = monitor.id
    /\ Stored(ms, id).name = monitor.name
    /\ Stored(ms, id).overall_state = monitor.overall_state

\* C21: two tag mutations of one monitor that interleave as get, get,
\* update, update leave the tags the first get returned with the delta of
\* the second writer alone, every other field as it was; run one after the
\* other, they leave those tags with both deltas applied in turn.
C21_InterleavedMutationsLoseFirstDelta ==
    TwoMutationsDone =>
        /\ (CallNames = <<"GET", "GET", "PUT", "PUT">> /\ hist[3].proc # hist[4].proc) =>
              /\ TagsOf(monitors, 1) = Delta(hist[4].proc, hist[1].monitor.tags)
              /\ SameButTags(monitors, 1, hist[1].monitor)
        /\ CallNames = <<"GET", "PUT", "GET", "PUT">> =>
              /\ TagsOf(monitors, 1) =
                    Delta(hist[4].proc, Delta(hist[1].proc, hist[1].monitor.tags))
              /\ SameButTags(monitors, 1, hist[1].monitor)

\* Both processes ran UpsertMonitor for one name to the end with every call
\* answered 200, and the first lookup found no monitor of that name.
TwoUpsertsDone ==
    /\ AllDone
    /\ \A p \in Procs : input[p] \in Upserts
    /\ input[1].monitor.name = input[2].monitor.name
    /\ Len(hist) = 4
    /\ AllCallsOk
    /\ hist[1].call = "LIST"
    /\ hist[1].monitor.id = 0

\* C22: of two UpsertMonitor invocations for a name no monitor has, when
\* both lookups are served before either create, both create and two
\* monitors have the name; when the second starts after the first returned,
\* it updates the monitor the first created and one monitor has the name.
C22_ConcurrentUpsertsCreateTwice ==
    TwoUpsertsDone =>
        /\ hist[2].call = "LIST" =>
              /\ CallNames = <<"LIST", "LIST", "POST", "POST">>
              /\ hist[3].proc # hist[4].proc
              /\ hist[3].answer # hist[4].answer
              /\ IdsOf(Named(monitors, input[1].monitor.name))
                    = {hist[3].answer, hist[4].answer}
              /\ Len(Named(monitors, input[1].monitor.name)) = 2
        /\ hist[2].call # "LIST" =>
              /\ CallNames = <<"LIST", "POST", "LIST", "PUT">>
              /\ hist[1].proc = hist[2].proc
              /\ hist[3].proc = hist[4].proc
              /\ hist[3].proc # hist[1].proc
              /\ hist[3].monitor.id = hist[2].answer
              /\ hist[4].id = hist[2].answer
              /\ IdsOf(Named(monitors, input[1].monitor.name)) = {hist[2].answer}
              /\ Len(Named(monitors, input[1].monitor.name)) = 1

\* Both lookups were served before either create, and both created.
C22_Witness ==
    /\ TwoUpsertsDone
    /\ input[1].monitor.name = "cpu"
    /\ CallNames = <<"LIST", "LIST", "POST", "POST">>
    /\ hist[1].proc = 1
    /\ hist[2].proc = 2
    /\ Len(Named(monitors, "cpu")) = 2

\* The remote calls of process p, in order.
ServedTo(p) == SelectSeq(hist, LAMBDA e : e.proc = p)

TagPrograms == Singles \cup Bulks

\* The definitions agree in every field except tags.
EqualButTags(sent, got) == [sent EXCEPT !.tags = <<>>] = [got EXCEPT !.tags = <<>>]

\* C23: in AddTagsToMonitor and RemoveTagsFromMonitor, alone or in the loop
\* of the bulk methods, every update follows at once a successful get of the
\* same monitor and carries the definition that get returned with only the
\* tags changed, computed from the tags of that get; every successful get
\* is followed by the update, and a failed get by no update.
C23_GetThenUpdateOfWhatWasGot ==
    \A p \in Procs :
        input[p] \in TagPrograms =>
            /\ \A k \in 1..Len(ServedTo(p)) :
                  ServedTo(p)[k].call = "PUT" =>
                      /\ k > 1
                      /\ ServedTo(p)[k - 1].call = "GET"
                      /\ ServedTo(p)[k - 1].ok
                      /\ ServedTo(p)[k - 1].id = ServedTo(p)[k].id
                      /\ EqualButTags(ServedTo(p)[k].monitor, ServedTo(p)[k - 1].monitor)
                      /\ ServedTo(p)[k].monitor.tags = Delta(p, ServedTo(p)[k - 1].monitor.tags)
            /\ \A k \in 1..Len(ServedTo(p)) :
                  (ServedTo(p)[k].call = "GET" /\ ServedTo(p)[k].ok) =>
                      /\ k = Len(ServedTo(p)) => pc[p] = "update"
                      /\ k < Len(ServedTo(p)) => ServedTo(p)[k + 1].call = "PUT"
            /\ (pc[p] = "done" /\ input[p] \in Singles) =>
                  /\ Len(ServedTo(p)) \in {1, 2}
                  /\ Len(ServedTo(p)) = 1 => (~ServedTo(p)[1].ok /\ failed[p])

\* A bulk add whose list returned monitor 1 with tags [team:x], whose get
\* returned it with the tag another invocation added meanwhile, and whose
\* update carries the tags of the get plus its own.
C23_Witness ==
    /\ input[1] \in Bulks
    /\ IsAdd(input[1])
    /\ pc[1] = "done"
    /\ Len(fetched[1].resolved) > 0
    /\ fetched[1].resolved[1].id = 1
    /\ fetched[1].resolved[1].tags = <<"team:x">>
    /\ \E k \in 2..Len(ServedTo(1)) :
          /\ ServedTo(1)[k].call = "PUT"
          /\ ServedTo(1)[k].ok
          /\ ServedTo(1)[k].id = 1
          /\ ServedTo(1)[k - 1].monitor.tags = <<"team:x", "team:z">>
          /\ ServedTo(1)[k].monitor.tags = <<"team:x", "team:z", "team:y">>
    /\ TagsOf(monitors, 1) = <<"team:x", "team:z", "team:y">>

\* C26: every monitor a delete-all run deletes is one of the monitors it
\* showed before the prompt, whatever other invocations did to the provider
\* between the listing and the confirmation.
C26_DeletesOnlyWhatWasShown ==
    \A p \in Procs :
        input[p] \in DeleteAlls =>
            \A k \in 1..Len(ServedTo(p)) :
                (ServedTo(p)[k].call = "DELETE" /\ ServedTo(p)[k].ok) =>
                    ServedTo(p)[k].id \in IdsOf(fetched[p].shown)

====
